---- MODULE Spec2Model ----
(***************************************************************************)
(* AS-RUN log ingestion (process-log-file handler and logParser).          *)
(*                                                                         *)
(* The store (Day, Broadcast, LogFile tables) is shared by all handler     *)
(* invocations.  One invocation ("run") walks the records of its S3 event; *)
(* it can be suspended only at an await (a store call or the S3 read), so  *)
(* every action below is one awaited call together with the synchronous    *)
(* code that follows it up to the next await.                              *)
(*                                                                         *)
(* Instants are integers: seconds counted from 2026-01-04T00:00:00Z.        *)
(***************************************************************************)
EXTENDS Integers, Sequences, FiniteSets, TLC

VARIABLES
    days,        \* the Day table, in insertion order; a row's id is its position
    broadcasts,  \* the Broadcast table, likewise
    logFiles,    \* the LogFile table, likewise
    run,         \* the locals and position of each handler invocation
    bucket,      \* an S3 object whose content stays as uploaded
    ingested,    \* history: keys whose processing ran to the end of its iteration
    arg,         \* the arguments of a call of a logParser function on its own
    ret,         \* what that call returned, NULL before it
    detections,  \* the Detection table, in insertion order
    videos,      \* the keys of the clips uploaded to the video bucket
    clip         \* the locals and position of the clip-creation handler

vars == <<days, broadcasts, logFiles, run, bucket, ingested, arg, ret,
          detections, videos, clip>>
store == <<days, broadcasts, logFiles>>
clipState == <<detections, videos, clip>>

\* A nullable value is a sequence of length at most one: NULL, or <<v>>.
NULL == <<>>
Some(v) == <<v>>
Val(o) == o[1]

\* ------------------------------------------------------------------ bounds
MaxRuns == 2
MaxBatch == 2
MaxLines == 2
MaxShortLines == 1

Runs == 1..MaxRuns

\* ------------------------------------------------------------- text helpers
\* String.prototype.toUpperCase, per character, on the characters in use.
UpperChar(c) ==
    CASE c = "u" -> "U"
      [] c = "c" -> "C"
      [] c = "x" -> "X"
      [] c = "n" -> "N"
      [] c = "w" -> "W"
      [] OTHER -> c

toUpperCase(s) == [i \in 1..Len(s) |-> UpperChar(s[i])]

\* String.prototype.includes: needle occurs as a contiguous substring.
includes(hay, needle) ==
    \E off \in 0..(Len(hay) - Len(needle)) :
        \A i \in 1..Len(needle) : hay[off + i] = needle[i]

startsWith(s, p) ==
    /\ Len(s) >= Len(p)
    /\ \A i \in 1..Len(p) : s[i] = p[i]

\* --------------------------------------------------------- program catalog
\* prisma.program.findMany: the catalog rows (id, keyword), in catalog order.
Catalog ==
    << [id |-> "p1", keyword |-> <<"u", "c">>],
       [id |-> "p2", keyword |-> <<"c", "x">>] >>

\* ------------------------------------------------------------ input domain
\* S3 object keys an event can name.
Keys ==
    { "logs/20260104_BNE-NINE.LOG", "logs/20260104_bri-nine.log",
      "logs/20260104_DRW-NINE.LOG", "logs/20260104_BNE-TEN.LOG",
      "logs/readme.txt" }

\* Titles of the log lines: one matched by both catalog keywords, one by none.
Titles == { <<"U", "c", "X">>, <<"N", "W">> }

\* The timestamp field of a line (columns 56-75, trimmed), as characters:
\* YYYYMMDD HH:MM:SS:FF on the date 2026-01-04.
LogDate == <<"2", "0", "2", "6", "0", "1", "0", "4">>

TimeField(h1, h2, m1, m2) == <<h1, h2, ":", m1, m2, ":", "0", "0", ":", "0", "2">>

StampField(h1, h2, m1, m2) == LogDate \o <<" ">> \o TimeField(h1, h2, m1, m2)

\* Timestamp fields of the ingested log lines: 06:00:00, 07:05:00 and an
\* empty field.
IngestStamps == { StampField("0", "6", "0", "0"), StampField("0", "7", "0", "5"), <<>> }

\* A line of the file: whether it is blank (only white space), its length in
\* characters, and the trimmed content of the columns that are read.
IngestLines ==
    [blank : {FALSE}, length : {360}, materialType : {"M"},
     databaseTitle : Titles, dateTimeRaw : IngestStamps]

SeqsUpTo(S, n) == UNION { [1..k -> S] : k \in 0..n }

Events == UNION { [1..k -> Keys] : k \in 1..MaxBatch }

\* ------------------------------------------------------- file name parsing
\* key.split("/").pop() matched against /(\d{8})_(\w+)-(\w+)\.LOG/i:
\* the three captured groups, or NULL when the name does not match.
fileNameMatch(key) ==
    CASE key = "logs/20260104_BNE-NINE.LOG" -> <<"20260104", "BNE", "NINE">>
      [] key = "logs/20260104_bri-nine.log" -> <<"20260104", "bri", "nine">>
      [] key = "logs/20260104_DRW-NINE.LOG" -> <<"20260104", "DRW", "NINE">>
      [] key = "logs/20260104_BNE-TEN.LOG" -> <<"20260104", "BNE", "TEN">>
      [] OTHER -> NULL

\* toUpperCase on the region and channel codes in use.
upperCode(s) ==
    CASE s = "bri" -> "BRI"
      [] s = "nine" -> "NINE"
      [] OTHER -> s

mapChannel(logChannel) ==
    LET c == upperCode(logChannel) IN
    CASE c = "NINE" -> Some("CH9")
      [] c = "GO" -> Some("GO")
      [] c = "GEM" -> Some("GEM")
      [] OTHER -> NULL

\* A region map that falls back to Sydney for a code it does not know.
mapRegion_defaultsToSydney(logRegion) ==
    LET g == upperCode(logRegion) IN
    CASE g = "MEL" -> Some("MEL")
      [] g = "BRI" -> Some("BNE")
      [] g = "BNE" -> Some("BNE")
      [] g = "PER" -> Some("PER")
      [] g = "ADL" -> Some("ADL")
      [] g = "ADE" -> Some("ADL")
      [] OTHER -> Some("SYD")

mapRegion(logRegion) ==
    LET g == upperCode(logRegion) IN
    CASE g = "SYD" -> Some("SYD")
      [] g = "MEL" -> Some("MEL")
      [] g = "BRI" -> Some("BNE")
      [] g = "BNE" -> Some("BNE")
      [] g = "PER" -> Some("PER")
      [] g = "ADL" -> Some("ADL")
      [] g = "ADE" -> Some("ADL")
      [] OTHER -> NULL

parseLogFileName(key) ==
    LET m == fileNameMatch(key) IN
    IF m = NULL THEN NULL
    ELSE IF mapRegion(m[2]) = NULL \/ mapChannel(m[3]) = NULL THEN NULL
    ELSE Some([date |-> m[1], region |-> Val(mapRegion(m[2])),
               channel |-> Val(mapChannel(m[3]))])

\* ------------------------------------------------------------- log parsing
getTimezoneForRegion(region) ==
    CASE region = "SYD" -> "Australia/Sydney"
      [] region = "MEL" -> "Australia/Melbourne"
      [] region = "BNE" -> "Australia/Brisbane"
      [] region = "PER" -> "Australia/Perth"
      [] region = "ADL" -> "Australia/Adelaide"
      [] OTHER -> "Australia/Sydney"

\* An offset table that places every zone ten hours ahead of UTC.
zoneOffset_eastern(zone) == 10 * 3600

\* UTC offset, in seconds, of a zone on the dates of the model (January 2026:
\* daylight saving is in force in Sydney, Melbourne and Adelaide).
zoneOffset(zone) ==
    CASE zone = "Australia/Sydney" -> 11 * 3600
      [] zone = "Australia/Melbourne" -> 11 * 3600
      [] zone = "Australia/Brisbane" -> 10 * 3600
      [] zone = "Australia/Perth" -> 8 * 3600
      [] zone = "Australia/Adelaide" -> 10 * 3600 + 1800

\* ---- JavaScript text primitives, on strings held as sequences of characters
Digits == {"0", "1", "2", "3", "4", "5", "6", "7", "8", "9"}

DigitValue(c) ==
    CASE c = "0" -> 0 [] c = "1" -> 1 [] c = "2" -> 2 [] c = "3" -> 3
      [] c = "4" -> 4 [] c = "5" -> 5 [] c = "6" -> 6 [] c = "7" -> 7
      [] c = "8" -> 8 [] c = "9" -> 9

\* String.prototype.split with a one-character separator.
RECURSIVE split(_, _)
split(s, sep) ==
    IF \A i \in 1..Len(s) : s[i] # sep THEN <<s>>
    ELSE LET i == CHOOSE k \in 1..Len(s) :
                      s[k] = sep /\ \A j \in 1..(k - 1) : s[j] # sep
         IN  <<SubSeq(s, 1, i - 1)>> \o split(SubSeq(s, i + 1, Len(s)), sep)

\* String.prototype.substring(from, to), 0-based, to exclusive.
substring(s, from, to) == SubSeq(s, from + 1, IF to < Len(s) THEN to ELSE Len(s))

\* The number NaN; a JavaScript number is NaN or <<n>>.
NaN == <<>>

RECURSIVE decimal(_, _)
decimal(s, k) == IF k = 0 THEN 0 ELSE decimal(s, k - 1) * 10 + DigitValue(s[k])

\* parseInt on unsigned text: the value of the longest prefix of digits, NaN
\* when the text does not start with a digit.
parseInt(s) ==
    IF s = <<>> \/ s[1] \notin Digits THEN NaN
    ELSE LET n == CHOOSE k \in 1..Len(s) :
                      /\ \A i \in 1..k : s[i] \in Digits
                      /\ (k = Len(s) \/ s[k + 1] \notin Digits)
         IN  Some(decimal(s, n))

\* ---- calendar
isLeapYear(y) == y % 4 = 0 /\ (y % 100 # 0 \/ y % 400 = 0)

daysInMonth(y, m) ==
    IF m = 2 THEN (IF isLeapYear(y) THEN 29 ELSE 28)
    ELSE IF m \in {4, 6, 9, 11} THEN 30 ELSE 31

\* Days from 1970-01-01 to the civil date y-m-d.
daysFromCivil(y, m, d) ==
    LET yy == IF m <= 2 THEN y - 1 ELSE y
        era == yy \div 400
        yoe == yy - era * 400
        mp == IF m > 2 THEN m - 3 ELSE m + 9
        doy == (153 * mp + 2) \div 5 + d - 1
        doe == yoe * 365 + yoe \div 4 - yoe \div 100 + doy
    IN  era * 146097 + doe - 719468

\* The day instants are counted from: 2026-01-04.
EpochDay == daysFromCivil(2026, 1, 4)

\* The date and time a DateTime built by fromObject must have to be valid.
validDateTime(year, month, day, hour, minute, second) ==
    /\ month \in 1..12
    /\ day \in 1..daysInMonth(year, month)
    /\ hour \in 0..23
    /\ minute \in 0..59
    /\ second \in 0..59

\* convertToUTC: the UTC instant of the local wall-clock time of the region.
\* The result is NULL when there is none: a component that is not a number
\* (fromObject rejects it and the caller's catch leaves dateTime null) or a
\* date or time that does not exist (toISO of an invalid DateTime is null).
convertToUTC(yyyy, mm, dd, hh, min, ss, region) ==
    LET year == parseInt(yyyy)
        month == parseInt(mm)
        day == parseInt(dd)
        hour == parseInt(hh)
        minute == parseInt(min)
        second == parseInt(ss)
        timezone == getTimezoneForRegion(region)
    IN  IF NaN \in {year, month, day, hour, minute, second} THEN NULL
        ELSE IF ~validDateTime(Val(year), Val(month), Val(day),
                               Val(hour), Val(minute), Val(second)) THEN NULL
        ELSE Some((daysFromCivil(Val(year), Val(month), Val(day)) - EpochDay) * 24 * 3600
                  + Val(hour) * 3600 + Val(minute) * 60 + Val(second)
                  - zoneOffset(timezone))

\* new Date(dateTime) on a nullable ISO text: null gives 1970-01-01T00:00:00Z.
newDate(dateTime) == IF dateTime = NULL THEN 0 - EpochDay * 24 * 3600 ELSE Val(dateTime)

\* The timestamp columns of a line: dateTime (UTC instant) and time (the
\* texts of hours, minutes, seconds as written), each nullable.  time is
\* assigned before the conversion to UTC is attempted.
parseDateTime(dateTimeRaw, region) ==
    LET none == [dateTime |-> NULL, time |-> NULL] IN
    IF Len(dateTimeRaw) < 17 THEN none
    ELSE LET parts == split(dateTimeRaw, " ") IN
         IF Len(parts) < 2 THEN none
         ELSE LET datePart == parts[1]
                  timePart == parts[2]
              IN  IF Len(datePart) < 8 THEN none
                  ELSE LET timeComponents == split(timePart, ":") IN
                       IF Len(timeComponents) < 3 THEN none
                       ELSE [ dateTime |->
                                  convertToUTC(substring(datePart, 0, 4),
                                               substring(datePart, 4, 6),
                                               substring(datePart, 6, 8),
                                               timeComponents[1], timeComponents[2],
                                               timeComponents[3], region),
                              time |-> Some(<<timeComponents[1], timeComponents[2],
                                              timeComponents[3]>>) ]

\* A billboard test that looks at the title only.
isBillboardOf_anyType(materialType, databaseTitle) ==
    /\ databaseTitle # <<>>
    /\ \/ startsWith(databaseTitle, <<"O", "B">>)
       \/ startsWith(databaseTitle, <<"M", "B">>)
       \/ startsWith(databaseTitle, <<"C", "B">>)

\* A billboard is a type I line whose title starts with OB, MB or CB.
isBillboardOf(materialType, databaseTitle) ==
    /\ materialType = "I"
    /\ databaseTitle # <<>>
    /\ \/ startsWith(databaseTitle, <<"O", "B">>)
       \/ startsWith(databaseTitle, <<"M", "B">>)
       \/ startsWith(databaseTitle, <<"C", "B">>)

billboardTypeOf(isBillboard, databaseTitle) ==
    IF ~isBillboard THEN NULL
    ELSE IF startsWith(databaseTitle, <<"O", "B">>) THEN Some("Open Billboard")
    ELSE IF startsWith(databaseTitle, <<"M", "B">>) THEN Some("Middle Billboard")
    ELSE IF startsWith(databaseTitle, <<"C", "B">>) THEN Some("Close Billboard")
    ELSE NULL

\* One decoded line: lineNumber is the 1-based position of the line.
logEntry(line, lineNum, region) ==
    LET stamp == parseDateTime(line.dateTimeRaw, region)
        isBillboard == isBillboardOf(line.materialType, line.databaseTitle)
    IN  [ lineNumber |-> lineNum,
          dateTime |-> stamp.dateTime,
          time |-> stamp.time,
          materialType |-> line.materialType,
          databaseTitle |-> line.databaseTitle,
          isBillboard |-> isBillboard,
          billboardType |-> billboardTypeOf(isBillboard, line.databaseTitle) ]

\* A line is decoded unless it is blank or shorter than 360 characters.
lineDecoded(line) == ~line.blank /\ line.length >= 360

\* A decoder that numbers the entries it emits instead of the lines it reads.
parseLogs_numbersEntries(lines, region) ==
    LET kept == SelectSeq(lines, lineDecoded)
        allEntries == [k \in 1..Len(kept) |-> logEntry(kept[k], k, region)]
    IN  [ allEntries |-> allEntries,
          billboards |-> SelectSeq(allEntries, LAMBDA e : e.isBillboard),
          programs |-> SelectSeq(allEntries,
                          LAMBDA e : /\ ~e.isBillboard
                                     /\ e.materialType \in {"M", "S"}) ]

\* parseLogs: blank and too-short lines are passed over; every other line
\* gives an entry, in line order, in allEntries and in at most one of
\* billboards and programs.
parseLogs(lines, region) ==
    LET kept == SelectSeq([i \in 1..Len(lines) |-> [n |-> i, line |-> lines[i]]],
                          LAMBDA x : lineDecoded(x.line))
        allEntries == [k \in 1..Len(kept) |-> logEntry(kept[k].line, kept[k].n, region)]
    IN  [ allEntries |-> allEntries,
          billboards |-> SelectSeq(allEntries, LAMBDA e : e.isBillboard),
          programs |-> SelectSeq(allEntries,
                          LAMBDA e : /\ ~e.isBillboard
                                     /\ e.materialType \in {"M", "S"}) ]

\* ---------------------------------------------------------------- matching
\* A match that compares the title and the keyword as they are written.
titleMatches_caseSensitive(e, keyword) == includes(e.databaseTitle, keyword)

titleMatches(e, keyword) ==
    includes(toUpperCase(e.databaseTitle), toUpperCase(keyword))

matchingEntriesOf(programs, keyword) ==
    SelectSeq(programs, LAMBDA e : titleMatches(e, keyword))

\* ---------------------------------------------------------------- segments
MAX_GAP_MINUTES == 30

\* A gap test that also splits at a gap of exactly MAX_GAP_MINUTES.
significantGap_atLeast(currentEntry, nextEntry) ==
    /\ currentEntry.dateTime # NULL
    /\ nextEntry.dateTime # NULL
    /\ Val(nextEntry.dateTime) - Val(currentEntry.dateTime) >= MAX_GAP_MINUTES * 60

\* (nextTime - currentTime) / (1000 * 60) > MAX_GAP_MINUTES, in seconds.
significantGap(currentEntry, nextEntry) ==
    /\ currentEntry.dateTime # NULL
    /\ nextEntry.dateTime # NULL
    /\ Val(nextEntry.dateTime) - Val(currentEntry.dateTime) > MAX_GAP_MINUTES * 60

\* A grouping loop that never moves currentSegmentStart.
RECURSIVE segmentLoop_keepsStart(_, _, _, _)
segmentLoop_keepsStart(m, i, currentSegmentStart, acc) ==
    IF i > Len(m) THEN acc
    ELSE IF i = Len(m)
         THEN Append(acc, [startEntry |-> m[currentSegmentStart], endEntry |-> m[i]])
    ELSE IF significantGap(m[i], m[i + 1])
         THEN segmentLoop_keepsStart(m, i + 1, currentSegmentStart,
                  Append(acc, [startEntry |-> m[currentSegmentStart], endEntry |-> m[i]]))
    ELSE segmentLoop_keepsStart(m, i + 1, currentSegmentStart, acc)

\* The grouping loop from index i (1-based) on; acc holds the segments closed
\* so far.
RECURSIVE segmentLoop(_, _, _, _)
segmentLoop(m, i, currentSegmentStart, acc) ==
    IF i > Len(m) THEN acc
    ELSE IF i = Len(m)
         THEN Append(acc, [startEntry |-> m[currentSegmentStart], endEntry |-> m[i]])
    ELSE IF significantGap(m[i], m[i + 1])
         THEN segmentLoop(m, i + 1, i + 1,
                  Append(acc, [startEntry |-> m[currentSegmentStart], endEntry |-> m[i]]))
    ELSE segmentLoop(m, i + 1, currentSegmentStart, acc)

\* Segments that start at the first entry of their run that has a timestamp.
broadcastSegmentsOf_usableStart(m) ==
    LET segs == segmentLoop(m, 1, 1, <<>>)
        usable(sg) == { i \in 1..Len(m) :
                          /\ sg.startEntry.lineNumber <= m[i].lineNumber
                          /\ m[i].lineNumber <= sg.endEntry.lineNumber
                          /\ m[i].dateTime # NULL }
    IN  [ k \in 1..Len(segs) |->
            IF usable(segs[k]) = {} THEN segs[k]
            ELSE [ startEntry |-> m[CHOOSE i \in usable(segs[k]) :
                                        \A j \in usable(segs[k]) : i <= j],
                   endEntry |-> segs[k].endEntry ] ]

broadcastSegmentsOf(m) == segmentLoop(m, 1, 1, <<>>)

\* An end time taken from the next program entry after the segment whatever
\* its title.
endTimeOf_anyTitle(programs, keyword, endEntry, startTime) ==
    LET later == SelectSeq(programs,
                    LAMBDA e : /\ e.lineNumber > endEntry.lineNumber
                               /\ e.dateTime # NULL)
    IN  IF later # <<>> THEN newDate(later[1].dateTime)
        ELSE startTime + 2 * 60 * 60

\* End of a segment: the instant of the next different program after the
\* segment's last entry, else two hours after its start.
endTimeOf(programs, keyword, endEntry, startTime) ==
    LET later == SelectSeq(programs,
                    LAMBDA e : /\ e.lineNumber > endEntry.lineNumber
                               /\ ~titleMatches(e, keyword)
                               /\ e.dateTime # NULL)
    IN  IF later # <<>> THEN newDate(later[1].dateTime)
        ELSE startTime + 2 * 60 * 60

\* ----------------------------------------------------------------- store
\* The where clause without its first alternative (the new broadcast starts
\* during the existing one).
overlapWhere_noStartDuring(b, dayId, channel, region, startTime, endTime) ==
    /\ b.dayId = dayId
    /\ b.channel = channel
    /\ b.region = region
    /\ \/ (b.startTime < endTime /\ b.endTime >= endTime)
       \/ (b.startTime >= startTime /\ b.endTime <= endTime)

\* The where clause of the overlap query, on one Broadcast row.
overlapWhere(b, dayId, channel, region, startTime, endTime) ==
    /\ b.dayId = dayId
    /\ b.channel = channel
    /\ b.region = region
    /\ \/ (b.startTime <= startTime /\ b.endTime > startTime)
       \/ (b.startTime < endTime /\ b.endTime >= endTime)
       \/ (b.startTime >= startTime /\ b.endTime <= endTime)

\* findFirst / findUnique: position of the first row satisfying P, 0 if none.
FirstIndex(rows, P(_)) ==
    IF \E i \in 1..Len(rows) : P(rows[i])
    THEN CHOOSE i \in 1..Len(rows) :
            /\ P(rows[i])
            /\ \A j \in 1..(i - 1) : ~P(rows[j])
    ELSE 0

mainRegions == {"SYD", "MEL", "BNE", "PER", "ADL"}

\* ------------------------------------------------------ one handler run
EmptyParsed == [allEntries |-> <<>>, billboards |-> <<>>, programs |-> <<>>]

NoLast == [key |-> "", noMatch |-> FALSE, made |-> 0]

\* The locals of a run before its handler is invoked.
IdleRun ==
    [ pc |-> "idle", records |-> 0, pending |-> <<>>, key |-> "", meta |-> NULL,
      parsedLogs |-> EmptyParsed, daysNeedingLogFiles |-> <<>>,
      prog |-> 0, segs |-> <<>>, seg |-> 0, day |-> 0,
      startTime |-> 0, endTime |-> 0,
      results |-> <<>>, statusCode |-> 0,
      \* what the run has logged and done, kept for the properties:
      nameSkips |-> 0,      \* "Could not parse filename" warnings
      overlapSkips |-> 0,   \* "Overlapping broadcast already exists" lines
      noMatch |-> FALSE,    \* no catalog keyword matches the file being processed
      made |-> 0,           \* rows created while processing the current file
      created |-> 0,        \* Broadcast rows created by the invocation
      last |-> NoLast,      \* the file whose processing has just ended
      failedAt |-> "" ]     \* the awaited call that rejected, if one did

\* The locals of the program and segment loops, out of scope between programs.
ClearProgram(s) ==
    [s EXCEPT !.prog = 0, !.segs = <<>>, !.seg = 0, !.day = 0,
              !.startTime = 0, !.endTime = 0]

\* The locals of one record's iteration, out of scope between records.
ClearRecord(s) ==
    [ClearProgram(s) EXCEPT !.key = "", !.meta = NULL, !.parsedLogs = EmptyParsed,
                            !.daysNeedingLogFiles = <<>>,
                            !.noMatch = FALSE, !.made = 0]

\* Head of the record loop; s.pending holds the records not yet visited.
\* Records whose file name does not parse are passed over with a warning
\* (continue); the first one that parses is read from S3; after the last
\* record the handler returns 200.
RECURSIVE ScanRecords(_)
ScanRecords(s) ==
    IF s.pending = <<>>
    THEN [s EXCEPT !.pc = "done", !.statusCode = 200]
    ELSE IF parseLogFileName(Head(s.pending)) = NULL
         THEN ScanRecords([s EXCEPT !.pending = Tail(@), !.nameSkips = @ + 1])
    ELSE [s EXCEPT !.pc = "getS3File", !.key = Head(s.pending),
                   !.pending = Tail(s.pending),
                   !.meta = parseLogFileName(Head(s.pending))]

\* The iteration of the current record (if any) ends and the loop goes on.
NextRecord(s) ==
    ScanRecords([ClearRecord(s) EXCEPT !.last =
                    IF s.key = "" THEN NoLast
                    ELSE [key |-> s.key, noMatch |-> s.noMatch, made |-> s.made]])

\* After the program loop: a LogFile reference is looked up only when the
\* region is a main region and some program matched.
LogFilePhase(s) ==
    IF Val(s.meta).region \in mainRegions /\ Len(s.daysNeedingLogFiles) > 0
    THEN [ClearProgram(s) EXCEPT !.pc = "findLogFile"]
    ELSE NextRecord(s)

\* A program whose matching entries are never taken to be none.
hasMatches_always(m) == TRUE

\* matchingEntries.length === 0 sends the program loop to the next program.
hasMatches(m) == m # <<>>

\* Head of the program loop from catalog position p on: programs without a
\* matching entry are passed over; for the first one with matches the
\* segments are built and its Day is looked up.
RECURSIVE NextProgram(_, _)
NextProgram(s, p) ==
    IF p > Len(Catalog) THEN LogFilePhase(s)
    ELSE LET m == matchingEntriesOf(s.parsedLogs.programs, Catalog[p].keyword)
         IN  IF ~hasMatches(m) THEN NextProgram(s, p + 1)
             ELSE [ClearProgram(s) EXCEPT !.pc = "findDay", !.prog = p,
                                          !.segs = broadcastSegmentsOf(m)]

\* A start check that lets every segment through.
validStart_always(startEntry) == TRUE

\* A segment is skipped when its start entry has no time or no dateTime.
validStart(startEntry) == startEntry.time # NULL /\ startEntry.dateTime # NULL

\* Head of the segment loop from segment k on: segments without a valid
\* start are passed over; for the first valid one the start and end times
\* are computed and the overlap query is issued.
RECURSIVE NextSegment(_, _)
NextSegment(s, k) ==
    IF k > Len(s.segs) THEN NextProgram(s, s.prog + 1)
    ELSE IF ~validStart(s.segs[k].startEntry) THEN NextSegment(s, k + 1)
    ELSE LET st == newDate(s.segs[k].startEntry.dateTime)
         IN  [s EXCEPT !.pc = "findOverlap", !.seg = k, !.startTime = st,
                       !.endTime = endTimeOf(s.parsedLogs.programs,
                                             Catalog[s.prog].keyword,
                                             s.segs[k].endEntry, st)]

\* daysNeedingLogFiles.add(day.id): a Set in insertion order.
WithDay(s, id) ==
    [s EXCEPT !.day = id,
              !.daysNeedingLogFiles =
                  IF \E j \in 1..Len(@) : @[j] = id THEN @ ELSE Append(@, id)]

\* ---------------------------------------------------------------- actions
AwaitPcs ==
    { "findPrograms", "getS3File", "findDay", "createDay", "findOverlap",
      "createBroadcast", "findLogFile", "createLogFile" }

Logs == SeqsUpTo(IngestLines, MaxLines)
ShortLogs == SeqsUpTo(IngestLines, MaxShortLines)

NoObject == [key |-> "", lines |-> <<>>]

\* The locals of the clip-creation handler before it is invoked: source names
\* the revision of the handler, calls lists the awaited calls made so far.
IdleClip ==
    [ pc |-> "idle", source |-> "", event |-> NULL,
      centerTime |-> 0, startTime |-> 0, endTime |-> 0,
      program |-> 0, day |-> 0, broadcast |-> 0,
      tempDir |-> FALSE, tempFilePath |-> FALSE,
      statusCode |-> 0, error |-> "", details |-> "",
      connected |-> FALSE, calls |-> <<>> ]

EmptyStore ==
    /\ days = <<>>
    /\ broadcasts = <<>>
    /\ logFiles = <<>>
    /\ run = [r \in Runs |-> IdleRun]
    /\ ingested = {}
    /\ detections = <<>>
    /\ videos = {}
    /\ clip = IdleClip

\* No function of logParser is called on its own.
NoCall == arg = NULL /\ ret = NULL

Init == EmptyStore /\ bucket = NoObject /\ NoCall

\* The iteration of the run's current record has run to its end: the run
\* has moved on to a later record or returned 200.
Completed(s, t) ==
    /\ s.key # ""
    /\ t.statusCode # 500
    /\ (t.pending # s.pending \/ t.pc = "done")

Track(r) ==
    /\ ingested' = IF Completed(run[r], run'[r]) THEN ingested \cup {run[r].key}
                   ELSE ingested
    /\ UNCHANGED <<bucket, arg, ret, clipState>>

\* The handler is invoked with a one-record S3 event while other
\* invocations may be in progress.
Invoke(r) ==
    /\ run[r].pc = "idle"
    /\ \A q \in 1..(r - 1) : run[q].pc # "idle"
    /\ \E k \in Keys :
         run' = [run EXCEPT ![r] = [IdleRun EXCEPT !.pc = "findPrograms", !.pending = <<k>>,
                                                   !.records = 1]]
    /\ UNCHANGED <<store, bucket, ingested, arg, ret, clipState>>

\* The locals of a run whose invocation has returned and been collected.
ReturnedRun == [IdleRun EXCEPT !.pc = "returned"]

\* Invocations one after another: every earlier invocation has returned.
InvokeAfter(r, events) ==
    /\ run[r].pc = "idle"
    /\ \A q \in 1..(r - 1) : run[q].pc # "idle"
    /\ \A q \in Runs : run[q].pc \in {"idle", "done", "returned"}
    /\ \E ev \in events :
         run' = [q \in Runs |->
                    IF q = r THEN [IdleRun EXCEPT !.pc = "findPrograms", !.pending = ev,
                                                 !.records = Len(ev)]
                    ELSE IF run[q].pc = "done" THEN ReturnedRun
                    ELSE run[q]]
    /\ UNCHANGED <<store, bucket, ingested, arg, ret, clipState>>

\* prisma.program.findMany, then the head of the record loop.
ProgramFindMany(r) ==
    /\ run[r].pc = "findPrograms"
    /\ run' = [run EXCEPT ![r] = NextRecord(@)]
    /\ UNCHANGED store
    /\ Track(r)

\* No keyword of the catalog occurs, compared case-insensitively, in the
\* title of any program line (material type M or S) of the file.
NoProgramMatches(lines) ==
    \A i \in 1..Len(lines) : \A p \in 1..Len(Catalog) :
        ~ /\ lineDecoded(lines[i])
          /\ lines[i].materialType \in {"M", "S"}
          /\ includes(toUpperCase(lines[i].databaseTitle), toUpperCase(Catalog[p].keyword))

\* getS3File and parseLogs, then the head of the program loop.  The object
\* under bucket.key reads as uploaded; any other object holds some log.
GetS3File(r, logs) ==
    /\ run[r].pc = "getS3File"
    /\ \E lines \in (IF run[r].key = bucket.key THEN {bucket.lines} ELSE logs) :
         run' = [run EXCEPT ![r] =
                    NextProgram([@ EXCEPT !.parsedLogs =
                                              parseLogs(lines, Val(run[r].meta).region),
                                          !.noMatch = NoProgramMatches(lines),
                                          !.last = NoLast],
                                1)]
    /\ UNCHANGED store
    /\ Track(r)

\* A Day lookup that compares the program only with the row's, and never
\* finds the row of the date.
dayWhere_dateMismatch(d, programId, date) == d.programId = programId /\ d.date # date

dayWhere(d, programId, date) == d.programId = programId /\ d.date = date

\* prisma.day.findFirst: an existing Day is used, else one is created next.
DayFindFirst(r) ==
    /\ run[r].pc = "findDay"
    /\ LET s == run[r]
           found == FirstIndex(days, LAMBDA d : dayWhere(d, Catalog[s.prog].id, Val(s.meta).date))
       IN  run' = [run EXCEPT ![r] =
                      IF found # 0 THEN NextSegment(WithDay(s, found), 1)
                      ELSE [s EXCEPT !.pc = "createDay"]]
    /\ UNCHANGED store
    /\ Track(r)

\* prisma.day.create; the new row's id is its position in the table.
DayCreate(r) ==
    /\ run[r].pc = "createDay"
    /\ LET s == run[r] IN
       /\ days' = Append(days, [programId |-> Catalog[s.prog].id, date |-> Val(s.meta).date])
       /\ run' = [run EXCEPT ![r] =
              NextSegment(WithDay([s EXCEPT !.made = @ + 1], Len(days) + 1), 1)]
    /\ UNCHANGED <<broadcasts, logFiles>>
    /\ Track(r)

\* An overlap branch that logs the overlap and creates the Broadcast all the same.
SkipSegment_createsAnyway(r) ==
    /\ broadcasts' = Append(broadcasts,
           [ dayId |-> run[r].day, channel |-> Val(run[r].meta).channel,
             region |-> Val(run[r].meta).region,
             startTime |-> run[r].startTime, endTime |-> run[r].endTime ])
    /\ run' = [run EXCEPT ![r] =
                  NextSegment([@ EXCEPT !.overlapSkips = @ + 1], run[r].seg + 1)]
    /\ UNCHANGED <<days, logFiles>>

\* The overlappingBroadcast branch: the segment is passed over (continue).
SkipSegment(r) ==
    /\ run' = [run EXCEPT ![r] =
                  NextSegment([@ EXCEPT !.overlapSkips = @ + 1], run[r].seg + 1)]
    /\ UNCHANGED store

overlappingBroadcast(s) ==
    FirstIndex(broadcasts,
               LAMBDA b : overlapWhere(b, s.day, Val(s.meta).channel, Val(s.meta).region,
                                       s.startTime, s.endTime))

\* prisma.broadcast.findFirst with the overlap where clause.
BroadcastFindFirst(r) ==
    /\ run[r].pc = "findOverlap"
    /\ IF overlappingBroadcast(run[r]) # 0
       THEN SkipSegment(r)
       ELSE /\ run' = [run EXCEPT ![r] = [@ EXCEPT !.pc = "createBroadcast"]]
            /\ UNCHANGED store
    /\ Track(r)

\* prisma.broadcast.create and results.push.
BroadcastCreate(r) ==
    /\ run[r].pc = "createBroadcast"
    /\ LET s == run[r] IN
       /\ broadcasts' = Append(broadcasts,
              [ dayId |-> s.day, channel |-> Val(s.meta).channel,
                region |-> Val(s.meta).region,
                startTime |-> s.startTime, endTime |-> s.endTime ])
       /\ run' = [run EXCEPT ![r] =
              NextSegment([s EXCEPT !.made = @ + 1, !.created = @ + 1, !.results =
                              Append(@, [ program |-> Catalog[s.prog].id,
                                          broadcast |-> Len(broadcasts) + 1,
                                          startTime |-> s.startTime,
                                          endTime |-> s.endTime ])],
                          s.seg + 1)]
    /\ UNCHANGED <<days, logFiles>>
    /\ Track(r)

\* A lookup that misses the stored reference.
existingLogFile_never(key) == FirstIndex(logFiles, LAMBDA f : f.s3_key = key /\ f.dayId = 0)

existingLogFile(key) == FirstIndex(logFiles, LAMBDA f : f.s3_key = key)

\* prisma.logFile.findUnique by s3_key: an existing reference ends the loop
\* over the tracked days (break), else one is created next.
LogFileFindUnique(r) ==
    /\ run[r].pc = "findLogFile"
    /\ LET s == run[r] IN
       run' = [run EXCEPT ![r] =
                  IF existingLogFile(s.key) # 0 THEN NextRecord(s)
                  ELSE [s EXCEPT !.pc = "createLogFile"]]
    /\ UNCHANGED store
    /\ Track(r)

\* prisma.logFile.create for the first tracked day, then break.
LogFileCreate(r) ==
    /\ run[r].pc = "createLogFile"
    /\ LET s == run[r] IN
       /\ logFiles' = Append(logFiles,
              [ s3_key |-> s.key, dayId |-> s.daysNeedingLogFiles[1],
                region |-> Val(s.meta).region, channel |-> Val(s.meta).channel ])
       /\ run' = [run EXCEPT ![r] = NextRecord([s EXCEPT !.made = @ + 1])]
    /\ UNCHANGED <<days, broadcasts>>
    /\ Track(r)

\* An awaited call rejects: the outer catch returns 500 for the invocation.
Throw(r) ==
    /\ run[r].pc \in AwaitPcs
    /\ run' = [run EXCEPT ![r] =
                  [ClearRecord(@) EXCEPT !.pc = "done", !.statusCode = 500,
                                         !.last = NoLast, !.failedAt = run[r].pc]]
    /\ UNCHANGED store
    /\ Track(r)

\* What the invocation returns: the status code is s.statusCode and the body
\* is the 200 summary, or the error of the outer catch.
responseBody(s) ==
    IF s.statusCode = 200
    THEN [ success |-> TRUE, message |-> <<"Processed", s.records, "file(s)">>,
           broadcastsCreated |-> Len(s.results), results |-> s.results ]
    ELSE [ success |-> FALSE, error |-> s.failedAt ]

Step(r, logs) ==
    \/ ProgramFindMany(r)
    \/ GetS3File(r, logs)
    \/ DayFindFirst(r)
    \/ DayCreate(r)
    \/ BroadcastFindFirst(r)
    \/ BroadcastCreate(r)
    \/ LogFileFindUnique(r)
    \/ LogFileCreate(r)
    \/ Throw(r)

\* Invocations one after another.
Next == \E r \in Runs : InvokeAfter(r, Events) \/ Step(r, Logs)

Spec == Init /\ [][Next]_vars

\* Invocations that overlap in time, interleaved at their awaits.
NextConc == \E r \in Runs : Invoke(r) \/ Step(r, ShortLogs)

SpecConc == Init /\ [][NextConc]_vars

\* Invocations one after another over a bucket in which one object, of a
\* supported file name, keeps the content it was uploaded with.
SupportedKeys == { k \in Keys : parseLogFileName(k) # NULL }

InitReingest == EmptyStore /\ bucket \in [key : SupportedKeys, lines : Logs] /\ NoCall

ReingestEvents == UNION { [1..k -> SupportedKeys] : k \in 1..MaxBatch }

NextReingest == \E r \in Runs : InvokeAfter(r, ReingestEvents) \/ Step(r, ShortLogs)

SpecReingest == InitReingest /\ [][NextReingest]_vars

\* ------------------------------------- the program loop body, on its own
\* Everything of the model except the call under study.
handlerState == <<days, broadcasts, logFiles, run, bucket, ingested, clipState>>

MaxSegLines == 3

\* Timestamp fields: 06:00, 06:20, 06:30, 07:05, an empty field and a field
\* whose hours are not a number.
SegStamps ==
    { StampField("0", "6", "0", "0"), StampField("0", "6", "2", "0"),
      StampField("0", "6", "3", "0"), StampField("0", "7", "0", "5"),
      <<>>, StampField("x", "x", "0", "0") }

SegLines ==
    [blank : {FALSE}, length : {360}, materialType : {"M", "S", "I"},
     databaseTitle : Titles, dateTimeRaw : SegStamps]

\* A decoded file and one catalog program.
SegArgs ==
    [lines : SeqsUpTo(SegLines, MaxSegLines), region : {"BNE"},
     program : 1..Len(Catalog)]

\* What one iteration of the program loop computes before it touches the
\* store: the matching entries, the segments and, for each segment that is
\* not skipped for its start, the start and end instants of its Broadcast.
programSegments(lines, region, keyword) ==
    LET parsedLogs == parseLogs(lines, region)
        matchingEntries == matchingEntriesOf(parsedLogs.programs, keyword)
        broadcastSegments ==
            IF hasMatches(matchingEntries) THEN broadcastSegmentsOf(matchingEntries)
            ELSE <<>>
    IN  [ parsedLogs |-> parsedLogs,
          keyword |-> keyword,
          matchingEntries |-> matchingEntries,
          broadcastSegments |-> broadcastSegments,
          times |-> [ k \in 1..Len(broadcastSegments) |->
                        IF ~validStart(broadcastSegments[k].startEntry) THEN NULL
                        ELSE LET st == newDate(broadcastSegments[k].startEntry.dateTime)
                             IN  Some([ startTime |-> st,
                                        endTime |-> endTimeOf(parsedLogs.programs, keyword,
                                                        broadcastSegments[k].endEntry, st) ]) ] ]

InitSegments == EmptyStore /\ bucket = NoObject /\ arg \in SegArgs /\ ret = NULL

BuildSegments ==
    /\ ret = NULL
    /\ ret' = Some(programSegments(arg.lines, arg.region, Catalog[arg.program].keyword))
    /\ UNCHANGED <<handlerState, arg>>

NextSegments == BuildSegments

SpecSegments == InitSegments /\ [][NextSegments]_vars

\* ------------------------------------------------- parseLogs, on its own
MaxDecodeLines == 2

\* Timestamp fields: a good one; an empty one; one cut short after the
\* minutes; one without the space; one with a 7-character date; one with two
\* time components; one with hours that are not a number; one in month 13;
\* one at 25 hours.
DecodeStamps ==
    { StampField("0", "6", "0", "0"),
      <<>>,
      LogDate \o <<" ", "0", "6", ":", "0", "0">>,
      LogDate \o <<"T">> \o TimeField("0", "6", "0", "0"),
      <<"2", "0", "2", "6", "0", "1", "4", " ">> \o TimeField("0", "6", "0", "0"),
      LogDate \o <<" ", "0", "6", "0", "0", "0", "0", ":", "0", "2", "0", "0">>,
      StampField("x", "x", "0", "0"),
      <<"2", "0", "2", "6", "1", "3", "0", "4", " ">> \o TimeField("0", "6", "0", "0"),
      StampField("2", "5", "0", "0") }

DecodeTitles ==
    { <<"O", "B", "1">>, <<"M", "B", "1">>, <<"C", "B", "1">>,
      <<"U", "c", "X">>, <<>> }

\* Lines that are decoded, a blank line, a line of white space only and a
\* line one character short.
DecodeLines ==
    [blank : {FALSE}, length : {360}, materialType : {"I", "M", "S", "C"},
     databaseTitle : DecodeTitles, dateTimeRaw : DecodeStamps]
    \cup { [blank |-> TRUE, length |-> 0, materialType |-> "",
            databaseTitle |-> <<>>, dateTimeRaw |-> <<>>],
           [blank |-> TRUE, length |-> 400, materialType |-> " ",
            databaseTitle |-> <<>>, dateTimeRaw |-> <<>>],
           [blank |-> FALSE, length |-> 359, materialType |-> "M",
            databaseTitle |-> <<"U", "c", "X">>,
            dateTimeRaw |-> StampField("0", "6", "0", "0")] }

DecodeArgs == [lines : SeqsUpTo(DecodeLines, MaxDecodeLines), region : {"BNE", "ADL"}]

InitDecode == EmptyStore /\ bucket = NoObject /\ arg \in DecodeArgs /\ ret = NULL

ParseLogs ==
    /\ ret = NULL
    /\ ret' = Some(parseLogs(arg.lines, arg.region))
    /\ UNCHANGED <<handlerState, arg>>

NextDecode == ParseLogs

SpecDecode == InitDecode /\ [][NextDecode]_vars

\* ------------------------------------ getBillboardsForProgram, on its own
\* Comparisons of JavaScript numbers: false when an operand is NaN.
jsLessOrEqual(a, b) == a # NaN /\ b # NaN /\ Val(a) <= Val(b)

jsLess(a, b) == a # NaN /\ b # NaN /\ Val(a) < Val(b)

\* time.split(":") and parseInt of hours, minutes and seconds: the seconds
\* since midnight, NaN when a component is not a number.
secondsOf(time) ==
    LET hh == parseInt(time[1])
        mm == parseInt(time[2])
        ss == parseInt(time[3])
    IN  IF NaN \in {hh, mm, ss} THEN NaN
        ELSE Some(Val(hh) * 3600 + Val(mm) * 60 + Val(ss))

\* nextProgSeconds: the seconds of the first entry after programLine of type
\* M or S that has a time; NULL when there is none.
nextProgSecondsOf(logData, programLine) ==
    LET later == SelectSeq(logData.allEntries,
                    LAMBDA e : /\ e.lineNumber > programLine
                               /\ e.materialType \in {"M", "S"}
                               /\ e.time # NULL)
    IN  IF later = <<>> THEN NULL ELSE Some(secondsOf(Val(later[1].time)))

\* A window test that also takes a billboard at the very start of the next
\* program.
inProgramWindow_closed(logData, program, billboard) ==
    /\ billboard.time # NULL
    /\ LET progSeconds == secondsOf(Val(program.time))
           nextProgSeconds == nextProgSecondsOf(logData, program.lineNumber)
           bbSeconds == secondsOf(Val(billboard.time))
       IN  IF nextProgSeconds # NULL
           THEN /\ jsLessOrEqual(progSeconds, bbSeconds)
                /\ jsLessOrEqual(bbSeconds, Val(nextProgSeconds))
           ELSE jsLessOrEqual(progSeconds, bbSeconds)

\* A window test that lets a window whose end is earlier in the day than its
\* start run through midnight.
inProgramWindow_wrapping(logData, program, billboard) ==
    /\ billboard.time # NULL
    /\ LET progSeconds == secondsOf(Val(program.time))
           nextProgSeconds == nextProgSecondsOf(logData, program.lineNumber)
           bbSeconds == secondsOf(Val(billboard.time))
       IN  IF nextProgSeconds # NULL
           THEN IF jsLess(Val(nextProgSeconds), progSeconds)
                THEN \/ jsLessOrEqual(progSeconds, bbSeconds)
                     \/ jsLess(bbSeconds, Val(nextProgSeconds))
                ELSE /\ jsLessOrEqual(progSeconds, bbSeconds)
                     /\ jsLess(bbSeconds, Val(nextProgSeconds))
           ELSE jsLessOrEqual(progSeconds, bbSeconds)

\* The billboard aired in the window of the program instance.
inProgramWindow(logData, program, billboard) ==
    /\ billboard.time # NULL
    /\ LET progSeconds == secondsOf(Val(program.time))
           nextProgSeconds == nextProgSecondsOf(logData, program.lineNumber)
           bbSeconds == secondsOf(Val(billboard.time))
       IN  IF nextProgSeconds # NULL
           THEN /\ jsLessOrEqual(progSeconds, bbSeconds)
                /\ jsLess(bbSeconds, Val(nextProgSeconds))
           ELSE jsLessOrEqual(progSeconds, bbSeconds)

\* The loop without the test that a billboard is not yet in the result.
RECURSIVE collectBillboards_noDedupe(_, _, _, _)
collectBillboards_noDedupe(logData, programInstances, i, found) ==
    IF i > Len(programInstances) THEN found
    ELSE IF programInstances[i].time = NULL
         THEN collectBillboards_noDedupe(logData, programInstances, i + 1, found)
    ELSE collectBillboards_noDedupe(logData, programInstances, i + 1,
             found \o SelectSeq(logData.billboards,
                        LAMBDA b : inProgramWindow(logData, programInstances[i], b)))

\* The loop over the program instances from instance i on; found holds the
\* billboards collected so far, each once.
RECURSIVE collectBillboards(_, _, _, _)
collectBillboards(logData, programInstances, i, found) ==
    IF i > Len(programInstances) THEN found
    ELSE IF programInstances[i].time = NULL
         THEN collectBillboards(logData, programInstances, i + 1, found)
    ELSE collectBillboards(logData, programInstances, i + 1,
             found \o SelectSeq(logData.billboards,
                        LAMBDA b : /\ inProgramWindow(logData, programInstances[i], b)
                                   /\ \A j \in 1..Len(found) : found[j] # b))

getBillboardsForProgram(logData, programKeyword) ==
    collectBillboards(logData,
                      SelectSeq(logData.programs, LAMBDA e : titleMatches(e, programKeyword)),
                      1, <<>>)

MaxBillboardLines == 4

\* Timestamp fields: 06:00, 06:05, 07:00, 07:10, an empty field and a field
\* whose hours are not a number.
BillboardStamps ==
    { StampField("0", "6", "0", "0"), StampField("0", "6", "0", "5"),
      StampField("0", "7", "0", "0"), StampField("0", "7", "1", "0"),
      <<>>, StampField("x", "x", "0", "0") }

\* Lines of a program the keyword matches (type M), of another program
\* (type S) and of a billboard.
BillboardLines ==
    { [blank |-> FALSE, length |-> 360, materialType |-> k[1],
       databaseTitle |-> k[2], dateTimeRaw |-> t] :
          k \in { <<"M", <<"U", "c", "X">>>>, <<"S", <<"N", "W">>>>,
                  <<"I", <<"O", "B", "1">>>> },
          t \in BillboardStamps }

BillboardArgs ==
    [lines : SeqsUpTo(BillboardLines, MaxBillboardLines), region : {"BNE"},
     programKeyword : {Catalog[1].keyword}]

InitBillboards == EmptyStore /\ bucket = NoObject /\ arg \in BillboardArgs /\ ret = NULL

GetBillboardsForProgram ==
    /\ ret = NULL
    /\ LET logData == parseLogs(arg.lines, arg.region) IN
       ret' = Some([ logData |-> logData,
                     billboards |-> getBillboardsForProgram(logData, arg.programKeyword) ])
    /\ UNCHANGED <<handlerState, arg>>

NextBillboards == GetBillboardsForProgram

SpecBillboards == InitBillboards /\ [][NextBillboards]_vars

\* ------------------------------------------------ convertToUTC, on its own
\* The civil date of the day that lies z days after 1970-01-01.
civilFromDays(z) ==
    LET s == z + 719468
        era == s \div 146097
        doe == s - era * 146097
        yoe == (doe - doe \div 1460 + doe \div 36524 - doe \div 146096) \div 365
        doy == doe - (365 * yoe + yoe \div 4 - yoe \div 100)
        mp == (5 * doy + 2) \div 153
        d == doy - (153 * mp + 2) \div 5 + 1
        m == IF mp < 10 THEN mp + 3 ELSE mp - 9
    IN  <<(IF m <= 2 THEN yoe + era * 400 + 1 ELSE yoe + era * 400), m, d>>

\* toUTC().toISO(): the year, month, day, hour, minute and second the ISO
\* text of an instant writes; null for no instant.
toISO(dateTime) ==
    IF dateTime = NULL THEN NULL
    ELSE LET t == Val(dateTime) + EpochDay * 24 * 3600
             date == civilFromDays(t \div 86400)
             sec == t % 86400
         IN  Some(<<date[1], date[2], date[3],
                    sec \div 3600, (sec % 3600) \div 60, sec % 60>>)

\* The conversion of the script that tests the timezone logic: fixed offsets
\* in minutes, standard time all year.
offsetMinutes(region) ==
    CASE region \in {"SYD", "MEL", "BNE"} -> 10 * 60
      [] region \in {"ADL", "ADE"} -> 9 * 60 + 30
      [] region = "PER" -> 8 * 60
      [] OTHER -> 10 * 60

\* Date.UTC: a month past December counts into the next year.
DateUTC(year, month, day, hour, minute, second) ==
    LET y == year + (month - 1) \div 12
        m == ((month - 1) % 12) + 1
    IN  (daysFromCivil(y, m, 1) + day - 1 - EpochDay) * 24 * 3600
        + hour * 3600 + minute * 60 + second

\* The script's convertToUTC; NULL where toISOString has no instant to write.
scriptConvertToUTC(yyyy, mm, dd, hh, min, ss, region) ==
    LET year == parseInt(yyyy)
        month == parseInt(mm)
        day == parseInt(dd)
        hour == parseInt(hh)
        minute == parseInt(min)
        second == parseInt(ss)
    IN  IF NaN \in {year, month, day, hour, minute, second} THEN NULL
        ELSE Some(DateUTC(Val(year), Val(month), Val(day),
                          Val(hour), Val(minute), Val(second))
                  - offsetMinutes(region) * 60)

\* Region codes a caller can pass: the five of the zone table, the file-name
\* aliases BRI and ADE, and a code no table knows.
ConvertRegions == mainRegions \cup {"BRI", "ADE", "DRW"}

\* Local wall-clock times on 2026-01-01, 2026-01-04, 2026-03-01 and
\* 2026-03-04, and in a month 13.
ConvertArgs ==
    [ yyyy : {<<"2", "0", "2", "6">>},
      mm : {<<"0", "1">>, <<"0", "3">>, <<"1", "3">>},
      dd : {<<"0", "1">>, <<"0", "4">>},
      hh : {<<"0", "0">>, <<"0", "6">>, <<"0", "9">>, <<"1", "0">>, <<"2", "3">>},
      min : {<<"0", "0">>, <<"5", "9">>},
      ss : {<<"0", "0">>, <<"5", "9">>},
      region : ConvertRegions ]

InitConvert == EmptyStore /\ bucket = NoObject /\ arg \in ConvertArgs /\ ret = NULL

\* One call: the zone the region resolves to, what the call wrote to the
\* console (neither function writes anything), the instant and its ISO text,
\* and the ISO text the test script computes for the same arguments.
ConvertToUTC ==
    /\ ret = NULL
    /\ LET dateTime == convertToUTC(arg.yyyy, arg.mm, arg.dd,
                                    arg.hh, arg.min, arg.ss, arg.region) IN
       ret' = Some([ timezone |-> getTimezoneForRegion(arg.region),
                     logged |-> <<>>,
                     dateTime |-> dateTime,
                     iso |-> toISO(dateTime),
                     script |-> toISO(scriptConvertToUTC(arg.yyyy, arg.mm, arg.dd,
                                          arg.hh, arg.min, arg.ss, arg.region)) ])
    /\ UNCHANGED <<handlerState, arg>>

NextConvert == ConvertToUTC

SpecConvert == InitConvert /\ [][NextConvert]_vars

\* ------------------------------------- clip creation (create-clip handler)
\* The handler is kept in two revisions: index.ts, and the copy in deploy.sh.
\* They differ in the Day they look up, in what they do when no Broadcast
\* covers the window, and in a check of the clip file after the transcoder.
\* The process runs with UTC as its time zone, so new Date of a date and time
\* without offset is that time in UTC.
Revisions == {"index.ts", "deploy.sh"}

\* The slug column of the catalog rows, in catalog order.
Slugs == <<"p1-show", "p2-show">>

\* prisma.program.findUnique by slug: the position of the row, 0 for none.
programFindUnique(slug) ==
    IF \E i \in 1..Len(Slugs) : Slugs[i] = slug
    THEN CHOOSE i \in 1..Len(Slugs) : Slugs[i] = slug
    ELSE 0

\* !x on a string field of the event: undefined (NULL) or empty.
falsy(x) == x = NULL \/ Val(x) = ""

\* !x on the date and the time, which are held as characters.
falsyText(x) == x = NULL \/ Val(x) = <<>>

\* A validation that takes a number as present only when it is truthy.
requiredFieldsPresent_truthy(event) ==
    ~ \/ falsy(event.programSlug)
      \/ falsy(event.channel)
      \/ falsy(event.region)
      \/ falsyText(event.date)
      \/ falsyText(event.time)
      \/ event.secondsBefore \in {NULL, Some(0)}
      \/ event.secondsAfter \in {NULL, Some(0)}
      \/ falsy(event.assetId)

\* The validation of the required fields: 0 is a value of secondsBefore and
\* secondsAfter, only undefined is missing.
requiredFieldsPresent(event) ==
    ~ \/ falsy(event.programSlug)
      \/ falsy(event.channel)
      \/ falsy(event.region)
      \/ falsyText(event.date)
      \/ falsyText(event.time)
      \/ event.secondsBefore = NULL
      \/ event.secondsAfter = NULL
      \/ falsy(event.assetId)

\* new Date(`${date}T${time}`) for a date YYYY-MM-DD and a time HH:MM:SS.
centerTimeOf(date, time) ==
    LET d == split(date, "-")
        t == split(time, ":")
    IN  DateUTC(Val(parseInt(d[1])), Val(parseInt(d[2])), Val(parseInt(d[3])),
                Val(parseInt(t[1])), Val(parseInt(t[2])), Val(parseInt(t[3])))

\* The date the Day is looked up by.  index.ts: midnight UTC of the date of
\* the request.  deploy.sh: midnight of the date that the instant of the
\* request, taken as UTC, has ten hours further east.
dayDateOf(source, date, centerTime) ==
    IF source = "index.ts"
    THEN LET d == split(date, "-") IN
         DateUTC(Val(parseInt(d[1])), Val(parseInt(d[2])), Val(parseInt(d[3])), 0, 0, 0)
    ELSE ((centerTime + 10 * 60 * 60) \div 86400) * 86400

\* The instant stored in the date column of a Day that ingestion created
\* from a file name: new Date(year, month, day).
dateInstant(date) ==
    CASE date = "20260103" -> 0 - 86400
      [] date = "20260104" -> 0
      [] date = "20260105" -> 86400

\* The where clause of the Broadcast lookup: a row of the day, channel and
\* region that starts at or before the window and ends at or after it.
clipBroadcastWhere(b, dayId, channel, region, startTime, endTime) ==
    /\ b.dayId = dayId
    /\ b.channel = channel
    /\ b.region = region
    /\ b.startTime <= startTime
    /\ b.endTime >= endTime

\* return { statusCode, body }, on the way to the finally block.
respond(c, statusCode, error, details) ==
    [c EXCEPT !.pc = "disconnect", !.statusCode = statusCode,
              !.error = error, !.details = details]

\* The locals after an awaited call: op names the call, ok tells whether it
\* resolved.
called(c, op, ok) == [c EXCEPT !.calls = Append(@, [op |-> op, ok |-> ok])]

\* The locals after an awaited call of the store.
queried(c, op, ok) == [called(c, op, ok) EXCEPT !.connected = TRUE]

\* The handler is entered: destructuring, validation and the instants of the
\* window.
ClipInvoke ==
    /\ clip.pc = "idle"
    /\ LET event == Val(clip.event) IN
       clip' = IF ~requiredFieldsPresent(event)
               THEN respond(clip, 400, "Missing required fields", "")
               ELSE LET centerTime == centerTimeOf(Val(event.date), Val(event.time)) IN
                    [clip EXCEPT !.pc = "findProgram",
                                 !.centerTime = centerTime,
                                 !.startTime = centerTime - Val(event.secondsBefore),
                                 !.endTime = centerTime + Val(event.secondsAfter)]
    /\ UNCHANGED <<store, run, bucket, ingested, arg, ret, detections, videos>>

ClipProgramFindUnique ==
    /\ clip.pc = "findProgram"
    /\ LET program == programFindUnique(Val(Val(clip.event).programSlug))
           c == queried(clip, "program.findUnique", TRUE)
       IN  clip' = IF program = 0 THEN respond(c, 404, "Program not found", "")
                   ELSE [c EXCEPT !.pc = "findDay", !.program = program]
    /\ UNCHANGED <<store, run, bucket, ingested, arg, ret, detections, videos>>

ClipDayFindFirst ==
    /\ clip.pc = "findDay"
    /\ LET dayDate == dayDateOf(clip.source, Val(Val(clip.event).date), clip.centerTime)
           day == FirstIndex(days, LAMBDA d : /\ d.programId = Catalog[clip.program].id
                                              /\ dateInstant(d.date) = dayDate)
           c == queried(clip, "day.findFirst", TRUE)
       IN  clip' = IF day = 0
                   THEN respond(c, 404,
                          "No day found for this date. Please create the day first.", "")
                   ELSE [c EXCEPT !.pc = "findBroadcast", !.day = day]
    /\ UNCHANGED <<store, run, bucket, ingested, arg, ret, detections, videos>>

\* prisma.broadcast.findFirst.  Without a covering Broadcast index.ts goes on
\* to create one; deploy.sh throws, which the outer catch answers.
ClipBroadcastFindFirst ==
    /\ clip.pc = "findBroadcast"
    /\ LET event == Val(clip.event)
           broadcast == FirstIndex(broadcasts, LAMBDA b :
                            clipBroadcastWhere(b, clip.day, Val(event.channel),
                                Val(event.region), clip.startTime, clip.endTime))
           c == queried(clip, "broadcast.findFirst", TRUE)
       IN  clip' = IF broadcast # 0
                   THEN [c EXCEPT !.pc = "mkdtemp", !.broadcast = broadcast]
                   ELSE IF clip.source = "index.ts"
                   THEN [c EXCEPT !.pc = "createBroadcast"]
                   ELSE respond(c, 500, "Failed to create clip",
                                "No broadcast found for this time window.")
    /\ UNCHANGED <<store, run, bucket, ingested, arg, ret, detections, videos>>

ClipBroadcastCreate ==
    /\ clip.pc = "createBroadcast"
    /\ broadcasts' = Append(broadcasts,
          [ dayId |-> clip.day, channel |-> Val(Val(clip.event).channel),
            region |-> Val(Val(clip.event).region),
            startTime |-> clip.startTime, endTime |-> clip.endTime ])
    /\ clip' = [queried(clip, "broadcast.create", TRUE) EXCEPT
                   !.pc = "mkdtemp", !.broadcast = Len(broadcasts) + 1]
    /\ UNCHANGED <<days, logFiles, run, bucket, ingested, arg, ret, detections, videos>>

ClipMkdtemp ==
    /\ clip.pc = "mkdtemp"
    /\ clip' = [called(clip, "fs.mkdtemp", TRUE) EXCEPT !.pc = "exec", !.tempDir = TRUE]
    /\ UNCHANGED <<store, run, bucket, ingested, arg, ret, detections, videos>>

\* execAsync(ffmpegCommand): the transcoder writes the clip file.  deploy.sh
\* then checks the file with fs.stat.
ClipExec ==
    /\ clip.pc = "exec"
    /\ clip' = [called(clip, "execAsync", TRUE) EXCEPT
                   !.pc = IF clip.source = "deploy.sh" THEN "stat" ELSE "readFile",
                   !.tempFilePath = TRUE]
    /\ UNCHANGED <<store, run, bucket, ingested, arg, ret, detections, videos>>

ClipStat ==
    /\ clip.pc = "stat"
    /\ clip' = [called(clip, "fs.stat", TRUE) EXCEPT !.pc = "readFile"]
    /\ UNCHANGED <<store, run, bucket, ingested, arg, ret, detections, videos>>

ClipReadFile ==
    /\ clip.pc = "readFile"
    /\ clip' = [called(clip, "fs.readFile", TRUE) EXCEPT !.pc = "upload"]
    /\ UNCHANGED <<store, run, bucket, ingested, arg, ret, detections, videos>>

\* The key of the clip: videos/<ISO text of centerTime>.mp4, held as the instant.
s3KeyOf(centerTime) == [prefix |-> "videos/", timestamp |-> centerTime]

ClipUpload ==
    /\ clip.pc = "upload"
    /\ videos' = videos \cup {s3KeyOf(clip.centerTime)}
    /\ clip' = [called(clip, "s3Client.send", TRUE) EXCEPT !.pc = "createDetection"]
    /\ UNCHANGED <<store, run, bucket, ingested, arg, ret, detections>>

ClipDetectionCreate ==
    /\ clip.pc = "createDetection"
    /\ detections' = Append(detections,
          [ video |-> s3KeyOf(clip.centerTime),
            startTime |-> clip.startTime, endTime |-> clip.endTime,
            broadcastId |-> clip.broadcast, assetId |-> Val(Val(clip.event).assetId),
            isBillboard |-> FALSE, falsePositive |-> FALSE ])
    /\ clip' = [queried(clip, "detection.create", TRUE) EXCEPT !.pc = "unlink"]
    /\ UNCHANGED <<store, run, bucket, ingested, arg, ret, videos>>

ClipUnlink ==
    /\ clip.pc = "unlink"
    /\ clip' = [called(clip, "fs.unlink", TRUE) EXCEPT !.pc = "rmdir", !.tempFilePath = FALSE]
    /\ UNCHANGED <<store, run, bucket, ingested, arg, ret, detections, videos>>

\* fs.rmdir, then return of status 200.
ClipRmdir ==
    /\ clip.pc = "rmdir"
    /\ clip' = respond([called(clip, "fs.rmdir", TRUE) EXCEPT !.tempDir = FALSE],
                       200, "", "")
    /\ UNCHANGED <<store, run, bucket, ingested, arg, ret, detections, videos>>

\* The awaited calls inside the inner try block, whose catch removes the
\* temporary files and throws again.
InnerTryPcs == {"exec", "stat", "readFile", "upload", "createDetection", "unlink", "rmdir"}

\* The awaited calls before the inner try block.
OuterTryPcs == {"findProgram", "findDay", "findBroadcast", "createBroadcast", "mkdtemp"}

\* The name of the call awaited at a position.
opAt(pc) ==
    CASE pc = "findProgram" -> "program.findUnique"
      [] pc = "findDay" -> "day.findFirst"
      [] pc = "findBroadcast" -> "broadcast.findFirst"
      [] pc = "createBroadcast" -> "broadcast.create"
      [] pc = "mkdtemp" -> "fs.mkdtemp"
      [] pc = "exec" -> "execAsync"
      [] pc = "stat" -> "fs.stat"
      [] pc = "readFile" -> "fs.readFile"
      [] pc = "upload" -> "s3Client.send"
      [] pc = "createDetection" -> "detection.create"
      [] pc = "unlink" -> "fs.unlink"
      [] pc = "rmdir" -> "fs.rmdir"

\* An awaited call before the inner try block rejects: the outer catch
\* answers 500.
ClipRejectOuter ==
    /\ clip.pc \in OuterTryPcs
    /\ clip' = respond(called(clip, opAt(clip.pc), FALSE),
                       500, "Failed to create clip", "rejected")
    /\ UNCHANGED <<store, run, bucket, ingested, arg, ret, detections, videos>>

\* A rejection inside the inner try block that is answered at once, without
\* the inner catch.
ClipRejectInner_noCleanup ==
    /\ clip.pc \in InnerTryPcs
    /\ clip' = respond(called(clip, opAt(clip.pc), FALSE),
                       500, "Failed to create clip", "rejected")
    /\ UNCHANGED <<store, run, bucket, ingested, arg, ret, detections, videos>>

\* An awaited call inside the inner try block rejects and has no effect on
\* the store or the bucket; a transcoder that fails may have left a clip
\* file behind.  The inner catch runs next.
ClipRejectInner ==
    /\ clip.pc \in InnerTryPcs
    /\ \E left \in (IF clip.pc = "exec" THEN BOOLEAN ELSE {clip.tempFilePath}) :
         clip' = [called(clip, opAt(clip.pc), FALSE) EXCEPT
                     !.pc = "cleanupUnlink", !.tempFilePath = left]
    /\ UNCHANGED <<store, run, bucket, ingested, arg, ret, detections, videos>>

\* The inner catch: fs.unlink(tempFilePath).catch(() => {}).  The file is
\* removed when it exists and the call resolves.
ClipCleanupUnlink ==
    /\ clip.pc = "cleanupUnlink"
    /\ \E ok \in (IF clip.tempFilePath THEN BOOLEAN ELSE {FALSE}) :
         clip' = [called(clip, "fs.unlink", ok) EXCEPT
                     !.pc = "cleanupRmdir",
                     !.tempFilePath = IF ok THEN FALSE ELSE @]
    /\ UNCHANGED <<store, run, bucket, ingested, arg, ret, detections, videos>>

\* fs.rmdir(tempDir).catch(() => {}), which needs an empty directory; then
\* the error is thrown again and the outer catch answers 500.
ClipCleanupRmdir ==
    /\ clip.pc = "cleanupRmdir"
    /\ \E ok \in (IF clip.tempFilePath THEN {FALSE} ELSE BOOLEAN) :
         clip' = respond([called(clip, "fs.rmdir", ok) EXCEPT
                             !.tempDir = IF ok THEN FALSE ELSE @],
                         500, "Failed to create clip", "rejected")
    /\ UNCHANGED <<store, run, bucket, ingested, arg, ret, detections, videos>>

\* finally: await prisma.$disconnect(), which is taken to resolve; the
\* handler's promise then settles with the response.
ClipDisconnect ==
    /\ clip.pc = "disconnect"
    /\ clip' = [called(clip, "$disconnect", TRUE) EXCEPT !.pc = "done", !.connected = FALSE]
    /\ UNCHANGED <<store, run, bucket, ingested, arg, ret, detections, videos>>

\* ---- the requests and the stores of the clip-creation model
ClipDate == <<"2", "0", "2", "6", "-", "0", "1", "-", "0", "4">>

ClockText(h1, h2) == <<h1, h2, ":", "0", "0", ":", "0", "0">>

\* Requests with every field: a known or an unknown slug, 06:00:00 or
\* 15:00:00 on 2026-01-04, 0 or 30 seconds before and after.
CompleteEvents ==
    [ programSlug : {Some(Slugs[1]), Some("other-show")},
      channel : {Some("CH9")},
      region : {Some("BNE")},
      date : {Some(ClipDate)},
      time : {Some(ClockText("0", "6")), Some(ClockText("1", "5"))},
      secondsBefore : {Some(0), Some(30)},
      secondsAfter : {Some(0), Some(30)},
      assetId : {Some("asset-1")} ]

\* The request the incomplete ones are derived from.
BaseEvent ==
    [ programSlug |-> Some(Slugs[1]), channel |-> Some("CH9"), region |-> Some("BNE"),
      date |-> Some(ClipDate), time |-> Some(ClockText("0", "6")),
      secondsBefore |-> Some(30), secondsAfter |-> Some(30),
      assetId |-> Some("asset-1") ]

\* Requests in which one field is absent or, for a text, empty.
IncompleteEvents ==
    { [BaseEvent EXCEPT ![f] = NULL] : f \in DOMAIN BaseEvent }
    \cup { [BaseEvent EXCEPT ![f] = Some("")] :
              f \in {"programSlug", "channel", "region", "assetId"} }
    \cup { [BaseEvent EXCEPT ![f] = Some(<<>>)] : f \in {"date", "time"} }

ClipEvents == CompleteEvents \cup IncompleteEvents

\* Day tables: none, the Day of program p1 on 2026-01-04, on 2026-01-05, both.
ClipDays ==
    { <<>>,
      << [programId |-> "p1", date |-> "20260104"] >>,
      << [programId |-> "p1", date |-> "20260105"] >>,
      << [programId |-> "p1", date |-> "20260104"],
         [programId |-> "p1", date |-> "20260105"] >> }

\* Broadcast rows of the first Day: one over 05:00-07:00 UTC of 2026-01-04,
\* one over 14:00-16:00, one that starts at 06:00:00, and one of another
\* region.
ClipBroadcastRows ==
    { [dayId |-> 1, channel |-> "CH9", region |-> "BNE",
       startTime |-> 5 * 3600, endTime |-> 7 * 3600],
      [dayId |-> 1, channel |-> "CH9", region |-> "BNE",
       startTime |-> 14 * 3600, endTime |-> 16 * 3600],
      [dayId |-> 1, channel |-> "CH9", region |-> "BNE",
       startTime |-> 6 * 3600, endTime |-> 7 * 3600],
      [dayId |-> 1, channel |-> "CH9", region |-> "SYD",
       startTime |-> 5 * 3600, endTime |-> 7 * 3600] }

MaxClipBroadcasts == 1

InitClip ==
    /\ days \in ClipDays
    /\ broadcasts \in SeqsUpTo(ClipBroadcastRows, MaxClipBroadcasts)
    /\ \A i \in 1..Len(broadcasts) : broadcasts[i].dayId \in 1..Len(days)
    /\ logFiles = <<>>
    /\ run = [r \in Runs |-> IdleRun]
    /\ ingested = {}
    /\ bucket = NoObject
    /\ NoCall
    /\ detections = <<>>
    /\ videos = {}
    /\ clip \in { [IdleClip EXCEPT !.source = v, !.event = Some(e)] :
                     v \in Revisions, e \in ClipEvents }

NextClip ==
    \/ ClipInvoke
    \/ ClipProgramFindUnique
    \/ ClipDayFindFirst
    \/ ClipBroadcastFindFirst
    \/ ClipBroadcastCreate
    \/ ClipMkdtemp
    \/ ClipExec
    \/ ClipStat
    \/ ClipReadFile
    \/ ClipUpload
    \/ ClipDetectionCreate
    \/ ClipUnlink
    \/ ClipRmdir
    \/ ClipRejectOuter
    \/ ClipRejectInner
    \/ ClipCleanupUnlink
    \/ ClipCleanupRmdir
    \/ ClipDisconnect

SpecClip == InitClip /\ [][NextClip]_vars

\* ------------------------------------------------------------------ claims
SameKey(a, b) == a.dayId = b.dayId /\ a.channel = b.channel /\ a.region = b.region

\* The half-open intervals [a.startTime, a.endTime) and [b.startTime, b.endTime)
\* overlap: neither ends at or before the start of the other.
Overlap(a, b) == ~(a.endTime <= b.startTime \/ a.startTime >= b.endTime)

\* C1: with invocations one after another, no two Broadcast rows of the same
\* (dayId, channel, region) have overlapping intervals [startTime, endTime).
C1_NoOverlappingBroadcasts ==
    \A i, j \in 1..Len(broadcasts) :
        (i # j /\ SameKey(broadcasts[i], broadcasts[j]))
            => ~Overlap(broadcasts[i], broadcasts[j])

\* Two Broadcast rows of one key were created, one ending where the other starts.
C1_Witness ==
    \E i, j \in 1..Len(broadcasts) :
        /\ i # j
        /\ SameKey(broadcasts[i], broadcasts[j])
        /\ broadcasts[i].startTime < broadcasts[i].endTime
        /\ broadcasts[i].endTime = broadcasts[j].startTime
        /\ broadcasts[j].startTime < broadcasts[j].endTime

\* Run r is processing the object of the bucket after an earlier processing
\* of that object ran to its end.
Reingesting(r) == run[r].key # "" /\ run[r].key = bucket.key /\ run[r].key \in ingested

\* C2: while a file is ingested again (same key, same content, same
\* catalog) after an earlier ingestion of it completed, no step changes the
\* Day, Broadcast or LogFile table.
C2_ReingestCreatesNothing ==
    [][\A r \in Runs : (Reingesting(r) /\ run'[r] # run[r]) => UNCHANGED store]_vars

\* The second ingestion has gone through its segments again, over a store
\* that holds the first ingestion's Broadcast and LogFile rows.
C2_Witness ==
    \E r \in Runs :
        /\ Reingesting(r)
        /\ run[r].pc = "findLogFile"
        /\ Len(run[r].daysNeedingLogFiles) = 2
        /\ Len(broadcasts) >= 2
        /\ existingLogFile(run[r].key) # 0

\* C3: between the overlap query of a run and its Broadcast create, no other
\* run creates an overlapping Broadcast of the same key: whenever a run is
\* about to create its candidate, the query would still find no overlap.
C3_QueryAndCreateNotSeparated ==
    \A r \in Runs :
        run[r].pc = "createBroadcast" => overlappingBroadcast(run[r]) = 0

\* The candidate of run r as a Broadcast row.
Candidate(r) ==
    [ dayId |-> run[r].day, channel |-> Val(run[r].meta).channel,
      region |-> Val(run[r].meta).region,
      startTime |-> run[r].startTime, endTime |-> run[r].endTime ]

\* C4: for every existing Broadcast [s,e) of the candidate's key, the where
\* clause of the overlap query holds exactly when NOT (ne <= s OR ns >= e).
C4_QueryIsHalfOpenTest ==
    \A r \in Runs :
        run[r].pc = "findOverlap" =>
            \A i \in 1..Len(broadcasts) :
                SameKey(broadcasts[i], Candidate(r)) =>
                    ( overlapWhere(broadcasts[i], run[r].day, Val(run[r].meta).channel,
                                   Val(run[r].meta).region, run[r].startTime, run[r].endTime)
                      <=> ~ \/ run[r].endTime <= broadcasts[i].startTime
                            \/ run[r].startTime >= broadcasts[i].endTime )

\* C5: at most one Day row exists per (programId, date).
C5_OneDayPerProgramAndDate ==
    \A i, j \in 1..Len(days) :
        (days[i].programId = days[j].programId /\ days[i].date = days[j].date) => i = j

\* C6: when the overlap query finds an existing Broadcast, the step taken on
\* its result changes no table, adds nothing to results, and does not lead
\* to the create of that segment.
C6_OverlapDropsSegment ==
    [][\A r \in Runs :
          ( /\ run[r].pc = "findOverlap"
            /\ overlappingBroadcast(run[r]) # 0
            /\ run'[r] # run[r] )
          => /\ UNCHANGED store
             /\ run'[r].results = run[r].results
             /\ run'[r].pc # "createBroadcast"]_vars

\* A run has passed over a segment that overlapped an existing Broadcast and
\* has returned after creating nothing.
C6_Witness ==
    \E r \in Runs :
        /\ run[r].overlapSkips > 0
        /\ run[r].pc = "done"
        /\ run[r].statusCode = 200
        /\ run[r].results = <<>>
        /\ Len(broadcasts) > 0

\* C7: no two LogFile rows have the same s3_key; the rows a file's ingestion
\* creates carry its key, so one ingestion creates at most one of them.
C7_OneLogFilePerKey ==
    \A i, j \in 1..Len(logFiles) : logFiles[i].s3_key = logFiles[j].s3_key => i = j

\* One ingestion has created two Days, their Broadcasts and a single LogFile.
C7_Witness ==
    \E r \in Runs :
        /\ run[r].last.key # ""
        /\ run[r].last.made >= 5
        /\ Len(days) = 2
        /\ Len(logFiles) = 1

\* The calls made while a file is being processed.
FileCallPcs ==
    { "findDay", "createDay", "findOverlap", "createBroadcast",
      "findLogFile", "createLogFile" }

\* The keys whose file name matches YYYYMMDD_REGION-CHANNEL.LOG with a
\* region and a channel of the supported maps.
WellNamedKeys == { "logs/20260104_BNE-NINE.LOG", "logs/20260104_bri-nine.log" }

\* C8: when a store call rejected while a file was being processed, the
\* invocation does not return before every later well-named file of its
\* batch has been processed.
C8_FailureConfinedToFile ==
    \A r \in Runs :
        (run[r].pc = "done" /\ run[r].failedAt \in FileCallPcs)
            => \A i \in 1..Len(run[r].pending) : run[r].pending[i] \notin WellNamedKeys

\* C9 as stated: a file no catalog program matches has a LogFile reference
\* once its processing has ended.
C9_NoMatchStillMarked ==
    \A r \in Runs :
        (run[r].last.key # "" /\ run[r].last.noMatch)
            => existingLogFile(run[r].last.key) # 0

\* C9 as amended: the ingestion of a file no catalog program matches creates
\* no row at all: no Broadcast, no Day and no LogFile reference.
C9_NoMatchCreatesNothing ==
    \A r \in Runs :
        /\ (run[r].key # "" /\ run[r].noMatch) => run[r].made = 0
        /\ (run[r].last.key # "" /\ run[r].last.noMatch) => run[r].last.made = 0

\* The processing of a file without a match has ended, the handler has
\* returned 200 and the file has no LogFile reference.
C9_Witness ==
    \E r \in Runs :
        /\ run[r].last.key # ""
        /\ run[r].last.noMatch
        /\ run[r].pc = "done"
        /\ run[r].statusCode = 200
        /\ existingLogFile(run[r].last.key) = 0

\* C10: a record whose file name is not well-named is never read from S3 and
\* never has a store call made for it, and passing it over does not end the
\* record loop: the loop goes on to the next well-named record of the batch,
\* or returns when none is left.
C10_BadNamesSkipped ==
    [][\A r \in Runs :
          /\ run'[r].pc \in (AwaitPcs \ {"findPrograms"}) => run'[r].key \in WellNamedKeys
          /\ \A i \in 1..Len(logFiles') : logFiles'[i].s3_key \in WellNamedKeys
          /\ (run[r].pc \in AwaitPcs /\ run'[r].pending # run[r].pending) =>
                LET old == run[r].pending
                    n == Len(old) - Len(run'[r].pending)
                IN  /\ n >= 1
                    /\ run'[r].pending = SubSeq(old, n + 1, Len(old))
                    /\ \A j \in 1..(n - 1) : old[j] \notin WellNamedKeys
                    /\ IF run'[r].pc = "getS3File"
                       THEN old[n] \in WellNamedKeys /\ run'[r].key = old[n]
                       ELSE run'[r].pc = "done" /\ old[n] \notin WellNamedKeys]_vars

\* A record was passed over for its name and the next record of the batch
\* has been read and processed up to its LogFile reference.
C10_Witness ==
    \E r \in Runs :
        /\ run[r].nameSkips > 0
        /\ run[r].pc = "createLogFile"
        /\ run[r].pending = <<>>

\* The skipped files a response body lists, with their reasons.
SkippedListed(body) == IF "skipped" \in DOMAIN body THEN body.skipped ELSE <<>>

\* C11: the summary of an invocation that returned 200 lists every file that
\* was skipped (one entry, with its reason, per file passed over), and its
\* broadcastsCreated is the number of Broadcast rows the invocation created.
C11_SummaryListsSkipsAndCount ==
    \A r \in Runs :
        (run[r].pc = "done" /\ run[r].statusCode = 200) =>
            /\ Len(SkippedListed(responseBody(run[r]))) = run[r].nameSkips
            /\ responseBody(run[r]).broadcastsCreated = run[r].created

\* The segments of a call of the program loop body on a file in which the
\* program has matching entries.
SegmentsBuilt == ret # NULL /\ Val(ret).matchingEntries # <<>>

\* C12: the segments partition the matching entries into consecutive runs:
\* start and end of a segment are matching entries, every matching entry lies
\* in the range of exactly one segment, the starts are strictly increasing in
\* line number and no segment ends before it starts.
C12_SegmentsPartition ==
    SegmentsBuilt =>
        LET m == Val(ret).matchingEntries
            segs == Val(ret).broadcastSegments
            within(e, sg) == /\ sg.startEntry.lineNumber <= e.lineNumber
                             /\ e.lineNumber <= sg.endEntry.lineNumber
        IN  /\ \A k \in 1..Len(segs) :
                   /\ \E i \in 1..Len(m) : m[i] = segs[k].startEntry
                   /\ \E i \in 1..Len(m) : m[i] = segs[k].endEntry
                   /\ segs[k].startEntry.lineNumber <= segs[k].endEntry.lineNumber
            /\ \A i \in 1..Len(m) :
                   Cardinality({k \in 1..Len(segs) : within(m[i], segs[k])}) = 1
            /\ \A k \in 1..(Len(segs) - 1) :
                   segs[k].startEntry.lineNumber < segs[k + 1].startEntry.lineNumber

\* Three matching entries in two segments, the first of two entries.
C12_Witness ==
    /\ SegmentsBuilt
    /\ Len(Val(ret).matchingEntries) = 3
    /\ Len(Val(ret).broadcastSegments) = 2
    /\ Val(ret).broadcastSegments[1].startEntry # Val(ret).broadcastSegments[1].endEntry

LaterDifferentPrograms(parsedLogs, keyword, endEntry) ==
    { i \in 1..Len(parsedLogs.allEntries) :
        LET e == parsedLogs.allEntries[i] IN
        /\ e.materialType \in {"M", "S"}
        /\ e.lineNumber > endEntry.lineNumber
        /\ ~titleMatches(e, keyword)
        /\ e.dateTime # NULL }

\* C14: the end time of a segment's Broadcast is the UTC timestamp of the
\* first program-type entry after the segment's endEntry, in line order, with
\* a title that does not contain the keyword and a non-null timestamp; when
\* there is none it is the start time plus 2 hours.
C14_EndTimeIsNextDifferentProgram ==
    ret # NULL =>
        LET c == Val(ret) IN
        \A k \in 1..Len(c.broadcastSegments) :
            c.times[k] # NULL =>
                LET later == LaterDifferentPrograms(c.parsedLogs, c.keyword,
                                                    c.broadcastSegments[k].endEntry)
                    t == Val(c.times[k])
                IN  IF later = {} THEN t.endTime = t.startTime + 2 * 3600
                    ELSE \E i \in later :
                            /\ \A j \in later : i <= j
                            /\ t.endTime = Val(c.parsedLogs.allEntries[i].dateTime)

\* A segment ends where a later program with another title starts, and the
\* program entry with another title right after the segment (which has no
\* timestamp) was passed over.
C14_Witness ==
    /\ ret # NULL
    /\ LET c == Val(ret) IN
       \E k \in 1..Len(c.broadcastSegments) :
           /\ c.times[k] # NULL
           /\ \E i, j \in 1..Len(c.parsedLogs.programs) :
                  LET e == c.parsedLogs.programs[i]
                      f == c.parsedLogs.programs[j]
                  IN  /\ e.lineNumber > c.broadcastSegments[k].endEntry.lineNumber
                      /\ ~titleMatches(e, c.keyword)
                      /\ e.dateTime = NULL
                      /\ f.lineNumber > e.lineNumber
                      /\ ~titleMatches(f, c.keyword)
                      /\ f.dateTime # NULL
                      /\ Val(c.times[k]).endTime = Val(f.dateTime)

\* C16: every segment built has a startEntry with a non-null timestamp.
C16_SegmentStartsHaveTimestamps ==
    ret # NULL =>
        \A k \in 1..Len(Val(ret).broadcastSegments) :
            Val(ret).broadcastSegments[k].startEntry.dateTime # NULL

\* C15: every Broadcast row the handler creates is created for a segment whose
\* startEntry has a timestamp, and its startTime is that UTC timestamp; a
\* segment whose startEntry has none produces no Broadcast.
C15_BroadcastStartsAtStartEntry ==
    [][\A r \in Runs :
          (run[r].pc = "createBroadcast" /\ Len(broadcasts') = Len(broadcasts) + 1
             /\ run'[r] # run[r]) =>
              LET startEntry == run[r].segs[run[r].seg].startEntry IN
              /\ startEntry.dateTime # NULL
              /\ broadcasts'[Len(broadcasts')].startTime = Val(startEntry.dateTime)]_vars

\* The program loop of a file has ended without a Broadcast although a
\* program has a segment, with no timestamp on its startEntry and one on its
\* endEntry.
C15_Witness ==
    \E r \in Runs :
        /\ run[r].pc = "findLogFile"
        /\ run[r].created = 0
        /\ \E p \in 1..Len(Catalog) :
             LET segs == broadcastSegmentsOf(
                             matchingEntriesOf(run[r].parsedLogs.programs, Catalog[p].keyword))
             IN  \E k \in 1..Len(segs) :
                     /\ segs[k].startEntry.dateTime = NULL
                     /\ segs[k].endEntry.dateTime # NULL

\* C16, as the code has it: segment construction takes the first matching
\* entry of a run as startEntry whatever its timestamp, so a startEntry can
\* lack one; such a segment is skipped (no Broadcast instants are computed
\* for it), and an entry without a timestamp never closes a segment before
\* the last matching entry.
C16_NullStartSegmentsAreSkipped ==
    SegmentsBuilt =>
        LET m == Val(ret).matchingEntries
            segs == Val(ret).broadcastSegments
        IN  /\ segs[1].startEntry = m[1]
            /\ \A k \in 2..Len(segs) : \E i \in 1..(Len(m) - 1) :
                   /\ segs[k - 1].endEntry = m[i]
                   /\ segs[k].startEntry = m[i + 1]
            /\ \A k \in 1..Len(segs) :
                   segs[k].startEntry.dateTime = NULL => Val(ret).times[k] = NULL
            /\ \A i \in 1..(Len(m) - 1) :
                   (m[i].dateTime = NULL \/ m[i + 1].dateTime = NULL) =>
                       \A k \in 1..Len(segs) : segs[k].endEntry # m[i]

\* A segment whose startEntry has no timestamp while its endEntry has one,
\* and that is skipped.
C16_Witness ==
    /\ SegmentsBuilt
    /\ \E k \in 1..Len(Val(ret).broadcastSegments) :
           /\ Val(ret).broadcastSegments[k].startEntry.dateTime = NULL
           /\ Val(ret).broadcastSegments[k].endEntry.dateTime # NULL
           /\ Val(ret).times[k] = NULL

\* The entries of a list, as a set.
EntriesOf(list) == { list[i] : i \in 1..Len(list) }

StrictlyIncreasingLines(list) ==
    \A i \in 1..(Len(list) - 1) : list[i].lineNumber < list[i + 1].lineNumber

\* C17: an entry's lineNumber is the 1-based position in the file of the line
\* it was decoded from, lineNumber is strictly increasing along allEntries,
\* programs and billboards, and a blank line or a line shorter than 360
\* characters has no entry in any of the three lists.
C17_LineNumbersArePositions ==
    ret # NULL =>
        LET d == Val(ret)
            all == EntriesOf(d.allEntries) \cup EntriesOf(d.programs)
                       \cup EntriesOf(d.billboards)
        IN  /\ \A e \in all :
                   /\ e.lineNumber \in 1..Len(arg.lines)
                   /\ e.materialType = arg.lines[e.lineNumber].materialType
                   /\ e.databaseTitle = arg.lines[e.lineNumber].databaseTitle
            /\ StrictlyIncreasingLines(d.allEntries)
            /\ StrictlyIncreasingLines(d.programs)
            /\ StrictlyIncreasingLines(d.billboards)
            /\ \A i \in 1..Len(arg.lines) :
                   (arg.lines[i].blank \/ arg.lines[i].length < 360) =>
                       \A e \in all : e.lineNumber # i

\* A file whose first line is blank or too short and whose second line was
\* decoded into an entry of line number 2.
C17_Witness ==
    /\ ret # NULL
    /\ Len(arg.lines) = 2
    /\ (arg.lines[1].blank \/ arg.lines[1].length < 360)
    /\ Len(Val(ret).allEntries) = 1
    /\ Val(ret).allEntries[1].lineNumber = 2

\* The title starts with the two characters a, b.
HasPrefix(title, a, b) == Len(title) >= 2 /\ title[1] = a /\ title[2] = b

\* C18: an entry is in billboards exactly when its type is I and its title
\* starts with OB, MB or CB, in programs exactly when its type is M or S,
\* never in both; billboards and programs hold entries of allEntries only;
\* billboardType is non-null exactly for billboards and names the prefix.
C18_Classification ==
    ret # NULL =>
        LET d == Val(ret) IN
        /\ \A e \in EntriesOf(d.allEntries) :
               LET bb == /\ e.materialType = "I"
                         /\ \/ HasPrefix(e.databaseTitle, "O", "B")
                            \/ HasPrefix(e.databaseTitle, "M", "B")
                            \/ HasPrefix(e.databaseTitle, "C", "B")
               IN  /\ (e \in EntriesOf(d.billboards)) <=> bb
                   /\ (e \in EntriesOf(d.programs)) <=> (e.materialType \in {"M", "S"})
                   /\ ~(e \in EntriesOf(d.billboards) /\ e \in EntriesOf(d.programs))
                   /\ (e.billboardType # NULL) <=> bb
                   /\ bb => e.billboardType =
                               IF HasPrefix(e.databaseTitle, "O", "B") THEN Some("Open Billboard")
                               ELSE IF HasPrefix(e.databaseTitle, "M", "B")
                                    THEN Some("Middle Billboard")
                               ELSE Some("Close Billboard")
        /\ EntriesOf(d.billboards) \subseteq EntriesOf(d.allEntries)
        /\ EntriesOf(d.programs) \subseteq EntriesOf(d.allEntries)

\* A decoded file with a billboard and a program whose title starts like a
\* billboard's.
C18_Witness ==
    /\ ret # NULL
    /\ Val(ret).billboards # <<>>
    /\ \E e \in EntriesOf(Val(ret).programs) : HasPrefix(e.databaseTitle, "O", "B")

\* C19: every line of sufficient length has its entry in allEntries whether
\* or not its timestamp field parses, and no entry has a non-null time
\* together with a null UTC timestamp (a field that fails to parse leaves
\* both null).
C19_FailedStampsLeaveBothNull ==
    ret # NULL =>
        /\ \A i \in 1..Len(arg.lines) :
               (~arg.lines[i].blank /\ arg.lines[i].length >= 360) =>
                   \E e \in EntriesOf(Val(ret).allEntries) : e.lineNumber = i
        /\ \A e \in EntriesOf(Val(ret).allEntries) :
               ~(e.time # NULL /\ e.dateTime = NULL)

\* The time-of-day of an entry in seconds since midnight; NULL when the entry
\* has no time or its time is not made of numbers.
TimeOfDay(e) == IF e.time = NULL THEN NULL ELSE secondsOf(Val(e.time))

\* The program instances of the keyword that have a time.
TimedInstances(logData, keyword) ==
    { e \in EntriesOf(logData.programs) : titleMatches(e, keyword) /\ e.time # NULL }

\* The entries after line n that are of type M or S.
ProgramsAfter(logData, n) ==
    { e \in EntriesOf(logData.allEntries) :
        e.lineNumber > n /\ e.materialType \in {"M", "S"} }

First(entries) == CHOOSE e \in entries : \A f \in entries : e.lineNumber <= f.lineNumber

\* C20, as stated: a billboard is returned exactly when, for some matching
\* program instance with time p, the next program-type entry after it has
\* time n and p <= b < n, or there is no next program-type entry and b >= p.
C20_WindowEndsAtNextProgramEntry ==
    ret # NULL =>
        LET logData == Val(ret).logData IN
        \A b \in EntriesOf(logData.billboards) :
            (b \in EntriesOf(Val(ret).billboards)) <=>
                \E pe \in TimedInstances(logData, arg.programKeyword) :
                    LET after == ProgramsAfter(logData, pe.lineNumber) IN
                    /\ TimeOfDay(pe) # NULL
                    /\ TimeOfDay(b) # NULL
                    /\ Val(TimeOfDay(pe)) <= Val(TimeOfDay(b))
                    /\ after # {} =>
                          /\ TimeOfDay(First(after)) # NULL
                          /\ Val(TimeOfDay(b)) < Val(TimeOfDay(First(after)))

\* C20, as the code has it: the window of an instance ends at the next
\* program-type entry after it that has a non-null time; entries of type M or
\* S without a time are passed over, and when no later program-type entry
\* has a time every billboard with b >= p is taken.  A time that is not made
\* of numbers satisfies no comparison.
C20_WindowEndsAtNextTimedProgramEntry ==
    ret # NULL =>
        LET logData == Val(ret).logData IN
        \A b \in EntriesOf(logData.billboards) :
            (b \in EntriesOf(Val(ret).billboards)) <=>
                \E pe \in TimedInstances(logData, arg.programKeyword) :
                    LET after == { e \in ProgramsAfter(logData, pe.lineNumber) :
                                     e.time # NULL }
                    IN  /\ TimeOfDay(pe) # NULL
                        /\ TimeOfDay(b) # NULL
                        /\ Val(TimeOfDay(pe)) <= Val(TimeOfDay(b))
                        /\ after # {} =>
                              /\ TimeOfDay(First(after)) # NULL
                              /\ Val(TimeOfDay(b)) < Val(TimeOfDay(First(after)))

\* The scenario: a matching program at 06:00:00 whose next program starts at
\* 07:00:00, with a billboard at 06:05:00 that is returned and one at
\* 07:10:00 that is not.
C20_Witness ==
    /\ ret # NULL
    /\ LET logData == Val(ret).logData
           at(h, mi) == Some(h * 3600 + mi * 60)
       IN  /\ \E pe \in TimedInstances(logData, arg.programKeyword) :
                  /\ TimeOfDay(pe) = at(6, 0)
                  /\ ProgramsAfter(logData, pe.lineNumber) # {}
                  /\ TimeOfDay(First(ProgramsAfter(logData, pe.lineNumber))) = at(7, 0)
           /\ \E b \in EntriesOf(Val(ret).billboards) : TimeOfDay(b) = at(6, 5)
           /\ \E b \in EntriesOf(logData.billboards) :
                  TimeOfDay(b) = at(7, 10) /\ b \notin EntriesOf(Val(ret).billboards)

\* Two entries of different lines whose fields are otherwise the same.
SameContent(a, b) ==
    /\ a.lineNumber # b.lineNumber
    /\ [a EXCEPT !.lineNumber = 0] = [b EXCEPT !.lineNumber = 0]

\* The billboards both the windows of two matching timed instances cover.
CoveredTwice(logData, keyword) ==
    { b \in EntriesOf(logData.billboards) :
        \E p, q \in TimedInstances(logData, keyword) :
            /\ p.lineNumber # q.lineNumber
            /\ inProgramWindow(logData, p, b)
            /\ inProgramWindow(logData, q, b) }

\* C21: the billboards returned for a program are entries of the parsed
\* billboards list, each entry is returned at most once, and of two billboard
\* lines with the same content both are returned when one is (the result is
\* de-duplicated by entry, not by value).
C21_BillboardsOnceByIdentity ==
    ret # NULL =>
        LET logData == Val(ret).logData
            result == Val(ret).billboards
        IN  /\ EntriesOf(result) \subseteq EntriesOf(logData.billboards)
            /\ \A i, j \in 1..Len(result) : result[i] = result[j] => i = j
            /\ \A a, b \in EntriesOf(logData.billboards) :
                   SameContent(a, b) /\ a \in EntriesOf(result)
                       => b \in EntriesOf(result)

\* A billboard that the windows of two matching program instances both cover
\* has been returned.
C21_Witness ==
    /\ ret # NULL
    /\ \E b \in CoveredTwice(Val(ret).logData, arg.programKeyword) :
           b \in EntriesOf(Val(ret).billboards)

\* Two billboard lines with the same content have both been returned.
C21_IdenticalLinesBothReturned ==
    /\ ret # NULL
    /\ \E a, b \in EntriesOf(Val(ret).billboards) : SameContent(a, b)

\* The keyword occurs in the title at some offset when letters that differ
\* only in case count as equal.
ContainsIgnoringCase(title, keyword) ==
    \E off \in 0..(Len(title) - Len(keyword)) :
        \A i \in 1..Len(keyword) : UpperChar(title[off + i]) = UpperChar(keyword[i])

\* C22: the entries matched to a catalog program are exactly the program
\* entries whose databaseTitle contains the program's keyword, compared
\* case-insensitively, and they are in their original line order.
C22_MatchIsCaseInsensitiveSubstring ==
    ret # NULL =>
        LET matched == Val(ret).matchingEntries
            programs == Val(ret).parsedLogs.programs
        IN  /\ EntriesOf(matched) =
                   { e \in EntriesOf(programs) :
                       ContainsIgnoringCase(e.databaseTitle, Val(ret).keyword) }
            /\ StrictlyIncreasingLines(matched)

\* Two entries are matched whose title holds the keyword in another case
\* than the catalog writes it, and a program entry between them is not
\* matched.
C22_Witness ==
    /\ ret # NULL
    /\ LET matched == Val(ret).matchingEntries IN
       /\ Len(matched) = 2
       /\ \A i \in 1..2 : ~includes(matched[i].databaseTitle, Val(ret).keyword)
       /\ \E e \in EntriesOf(Val(ret).parsedLogs.programs) :
              /\ e \notin EntriesOf(matched)
              /\ matched[1].lineNumber < e.lineNumber
              /\ e.lineNumber < matched[2].lineNumber

\* The zones the codes of the zone table resolve to.
KnownZones == { getTimezoneForRegion(g) : g \in mainRegions }

\* C23, as stated: a region code outside the known set resolves, without
\* failing, to the default zone, and the caller can tell that the default was
\* used (something is logged, or the value returned differs from every zone
\* of a known code); BRI resolves to the zone of BNE and ADE to that of ADL.
C23_DefaultZoneIsObservable ==
    ret # NULL =>
        /\ arg.region \notin mainRegions \cup {"BRI", "ADE"} =>
               /\ Val(ret).timezone = "Australia/Sydney"
               /\ Val(ret).logged # <<>> \/ Val(ret).timezone \notin KnownZones
        /\ arg.region = "BRI" => Val(ret).timezone = getTimezoneForRegion("BNE")
        /\ arg.region = "ADE" => Val(ret).timezone = getTimezoneForRegion("ADL")

\* The part of C23 that holds: every code resolves to a zone, and a code
\* that is not in the zone table resolves to Australia/Sydney.
C23_UnknownCodesResolveToSydney ==
    ret # NULL =>
        /\ Val(ret).timezone \in KnownZones
        /\ arg.region \notin mainRegions => Val(ret).timezone = "Australia/Sydney"

\* The numbers a call of convertToUTC was given: year, month, day, hour,
\* minute, second, as the decimal values of two- and four-digit texts.
LocalFields ==
    LET n(s) == decimal(s, Len(s)) IN
    <<n(arg.yyyy), n(arg.mm), n(arg.dd), n(arg.hh), n(arg.min), n(arg.ss)>>

\* The local time exists: the month is one of January to March 2026.
LocalIsValid == LocalFields[2] \in 1..3

\* Seconds from 2026-01-01T00:00:00 to a time of January to March 2026.
SecondsInto2026(f) ==
    ((IF f[2] = 1 THEN 0 ELSE IF f[2] = 2 THEN 31 ELSE 59) + f[3] - 1) * 86400
    + f[4] * 3600 + f[5] * 60 + f[6]

\* The fields of a time of January to March 2026, or of the last day of
\* 2025, that lies s seconds after 2026-01-01T00:00:00.
FieldsOf2026(s) ==
    LET dayNo == s \div 86400
        sec == s % 86400
        date == IF dayNo < 0 THEN <<2025, 12, 32 + dayNo>>
                ELSE IF dayNo < 31 THEN <<2026, 1, dayNo + 1>>
                ELSE IF dayNo < 59 THEN <<2026, 2, dayNo - 30>>
                ELSE <<2026, 3, dayNo - 58>>
    IN  date \o <<sec \div 3600, (sec % 3600) \div 60, sec % 60>>

\* C24: for every valid local timestamp of region BNE the decoded UTC
\* timestamp is the local one minus exactly 10 hours, on the previous calendar
\* day when the local time is before 10:00 (local 2026-01-04 00:00:59 gives
\* 2026-01-03T14:00:59Z, 06:00:00 gives 20:00:00Z of the day before); for
\* region PER it is the local one minus exactly 8 hours.
C24_BrisbaneMinusTenPerthMinusEight ==
    ret # NULL /\ arg.region \in {"BNE", "PER"} /\ LocalIsValid =>
        LET hours == IF arg.region = "BNE" THEN 10 ELSE 8
            f == LocalFields
        IN  /\ Val(ret).iso = Some(FieldsOf2026(SecondsInto2026(f) - hours * 3600))
            /\ Val(ret).script = Val(ret).iso
            /\ arg.region = "BNE" /\ f[4] < 10 =>
                   /\ Val(Val(ret).iso)[4] = f[4] + 14
                   /\ <<Val(Val(ret).iso)[5], Val(Val(ret).iso)[6]>> = <<f[5], f[6]>>
                   /\ IF f[3] > 1 THEN Val(Val(ret).iso)[3] = f[3] - 1
                      ELSE Val(Val(ret).iso)[2] # f[2]
            /\ arg.region = "BNE" /\ f = <<2026, 1, 4, 0, 0, 59>> =>
                   Val(ret).iso = Some(<<2026, 1, 3, 14, 0, 59>>)
            /\ arg.region = "BNE" /\ f = <<2026, 1, 4, 6, 0, 0>> =>
                   Val(ret).iso = Some(<<2026, 1, 3, 20, 0, 0>>)

\* Local 2026-01-04 00:00:59 of Brisbane has been converted.
C24_Witness ==
    /\ ret # NULL
    /\ arg.region = "BNE"
    /\ LocalFields = <<2026, 1, 4, 0, 0, 59>>
    /\ Val(ret).iso = Some(<<2026, 1, 3, 14, 0, 59>>)

\* Local 2026-01-01 06:00:00 of Perth has been converted to the last day of
\* 2025.
C24_PerthAcrossTheYear ==
    /\ ret # NULL
    /\ arg.region = "PER"
    /\ LocalFields = <<2026, 1, 1, 6, 0, 0>>
    /\ Val(ret).iso = Some(<<2025, 12, 31, 22, 0, 0>>)

\* C26: every Broadcast created by ingestion has startTime strictly before
\* endTime, whatever the log holds, also when the next differing program
\* entry carries a timestamp equal to or earlier than the segment's start.
C26_BroadcastsStartBeforeTheyEnd ==
    \A i \in 1..Len(broadcasts) : broadcasts[i].startTime < broadcasts[i].endTime

\* Every row of the Broadcast table was created by the ingestion of one file:
\* the first invocation, with an event of one record, on the empty store.
OneFileIngested ==
    /\ run[1].records = 1
    /\ \A q \in Runs \ {1} : run[q].pc = "idle"

\* C27: within the ingestion of one file, no two Broadcasts created for the
\* same channel and region overlap in time, also when they belong to the Days
\* of different catalog programs whose keywords match the same titles.
\* (Stated on Broadcasts that start before they end.)
C27_NoOverlapAcrossPrograms ==
    OneFileIngested =>
        \A i, j \in 1..Len(broadcasts) :
            ( /\ i # j
              /\ broadcasts[i].channel = broadcasts[j].channel
              /\ broadcasts[i].region = broadcasts[j].region
              /\ broadcasts[i].startTime < broadcasts[i].endTime
              /\ broadcasts[j].startTime < broadcasts[j].endTime )
            => ~Overlap(broadcasts[i], broadcasts[j])

\* The matching timed instances whose window wraps: the next program-type
\* entry with a time has an earlier time-of-day than the instance.
WrappingInstances(logData, keyword) ==
    { pe \in TimedInstances(logData, keyword) :
        LET n == nextProgSecondsOf(logData, pe.lineNumber) IN
        /\ n # NULL
        /\ jsLess(Val(n), TimeOfDay(pe)) }

\* The billboards some window that does not wrap covers.
CoveredWithoutWrap(logData, keyword) ==
    { b \in EntriesOf(logData.billboards) :
        \E pe \in TimedInstances(logData, keyword) \ WrappingInstances(logData, keyword) :
            LET n == nextProgSecondsOf(logData, pe.lineNumber) IN
            /\ TimeOfDay(pe) # NaN
            /\ TimeOfDay(b) # NaN
            /\ Val(TimeOfDay(pe)) <= Val(TimeOfDay(b))
            /\ n # NULL => Val(n) # NaN /\ Val(TimeOfDay(b)) < Val(Val(n)) }

\* C28: a window whose next program-type entry has an earlier time-of-day
\* than the matching program contributes no billboard: every billboard that
\* is returned lies in a window that does not wrap, also a billboard that
\* aired after the program and before midnight or after midnight and before
\* the next program.
C28_WrappingWindowIsEmpty ==
    ret # NULL =>
        EntriesOf(Val(ret).billboards)
            \subseteq CoveredWithoutWrap(Val(ret).logData, arg.programKeyword)

\* The only matching program is at 07:00:00 and the next program at 06:00:00;
\* a billboard at 07:10:00 and one at 06:00:00 follow and none is returned.
C28_Witness ==
    /\ ret # NULL
    /\ LET logData == Val(ret).logData
           at(h, mi) == Some(h * 3600 + mi * 60)
       IN  /\ TimedInstances(logData, arg.programKeyword) # {}
           /\ TimedInstances(logData, arg.programKeyword)
                  = WrappingInstances(logData, arg.programKeyword)
           /\ \E pe \in WrappingInstances(logData, arg.programKeyword) :
                  TimeOfDay(pe) = at(7, 0)
           /\ \E b \in EntriesOf(logData.billboards) : TimeOfDay(b) = at(7, 10)
           /\ \E b \in EntriesOf(logData.billboards) : TimeOfDay(b) = at(6, 0)
           /\ Val(ret).billboards = <<>>

\* The positions in the handler's list of calls at which op was awaited and
\* resolved (ok) or rejected.
CallsAt(op, ok) == { k \in 1..Len(clip.calls) : clip.calls[k] = [op |-> op, ok |-> ok] }

\* The Broadcast rows that were in the table when the clip handler was
\* invoked: all but one it created itself.
BroadcastsBefore ==
    IF CallsAt("broadcast.create", TRUE) # {}
    THEN SubSeq(broadcasts, 1, Len(broadcasts) - 1)
    ELSE broadcasts

\* The Day was found, the Broadcast lookup resolved, and no Broadcast of the
\* day, channel and region of the request covers the window
\* [center - secondsBefore, center + secondsAfter].
WindowNotCovered ==
    /\ clip.day # 0
    /\ CallsAt("broadcast.findFirst", TRUE) # {}
    /\ LET event == Val(clip.event)
           from == clip.centerTime - Val(event.secondsBefore)
           to == clip.centerTime + Val(event.secondsAfter)
       IN  ~ \E i \in 1..Len(BroadcastsBefore) :
               LET b == BroadcastsBefore[i] IN
               /\ b.dayId = clip.day
               /\ b.channel = Val(event.channel)
               /\ b.region = Val(event.region)
               /\ b.startTime <= from
               /\ to <= b.endTime

\* C25: when the Day exists but no existing Broadcast of that (day, channel,
\* region) covers the requested window, the handler creates no Broadcast and
\* what it returns tells the caller that none was found (status 404, or the
\* message that no broadcast was found for the window).
C25_UncoveredWindowIsNotFound ==
    WindowNotCovered =>
        /\ broadcasts = BroadcastsBefore
        /\ clip.pc = "done" =>
               \/ clip.statusCode = 404
               \/ clip.details = "No broadcast found for this time window."

\* The part of C25 that holds: the revision of the handler in deploy.sh
\* creates no Broadcast and answers an uncovered window with status 500 and
\* the message that no broadcast was found.
C25_DeployRevisionCreatesNoBroadcast ==
    clip.source = "deploy.sh" =>
        /\ broadcasts = BroadcastsBefore
        /\ CallsAt("broadcast.create", TRUE) = {}
        /\ WindowNotCovered /\ clip.pc = "done" =>
               /\ clip.statusCode = 500
               /\ clip.details = "No broadcast found for this time window."

\* The transcoder run or the upload was awaited and rejected.
ClipFailed == CallsAt("execAsync", FALSE) \cup CallsAt("s3Client.send", FALSE) # {}

\* C29: a Detection exists only when the transcoder run, then the upload,
\* then detection.create have resolved in that order, and its clip is in the
\* bucket; when the transcoder run or the upload has rejected, no Detection
\* exists, removal of the clip file and of the directory is attempted after
\* the rejection, and the handler returns status 500; whatever the outcome,
\* the last thing a handler that has returned did is disconnect from the
\* store.
C29_DetectionAfterClipIsStored ==
    /\ detections # <<>> =>
           /\ \E i \in CallsAt("execAsync", TRUE) : \E j \in CallsAt("s3Client.send", TRUE) :
                  \E k \in CallsAt("detection.create", TRUE) : i < j /\ j < k
           /\ \A d \in 1..Len(detections) : detections[d].video \in videos
    /\ ClipFailed =>
           /\ detections = <<>>
           /\ CallsAt("detection.create", TRUE) = {}
           /\ clip.pc \in {"disconnect", "done"} =>
                  /\ clip.statusCode = 500
                  /\ \E f \in CallsAt("execAsync", FALSE) \cup CallsAt("s3Client.send", FALSE) :
                       \E u \in CallsAt("fs.unlink", TRUE) \cup CallsAt("fs.unlink", FALSE) :
                         \E d \in CallsAt("fs.rmdir", TRUE) \cup CallsAt("fs.rmdir", FALSE) :
                             f < u /\ u < d
    /\ clip.pc = "done" =>
           /\ clip.calls[Len(clip.calls)] = [op |-> "$disconnect", ok |-> TRUE]
           /\ ~clip.connected

\* The upload was rejected after the transcoder had written the clip: the
\* handler has returned 500, the file and the directory are gone and no
\* Detection exists.
C29_Witness ==
    /\ clip.pc = "done"
    /\ CallsAt("execAsync", TRUE) # {}
    /\ CallsAt("s3Client.send", FALSE) # {}
    /\ clip.statusCode = 500
    /\ ~clip.tempFilePath
    /\ ~clip.tempDir
    /\ detections = <<>>

\* A request has been served in full: the Detection of its clip exists and
\* the handler has returned 200.
C29_DetectionCreated ==
    /\ clip.pc = "done"
    /\ clip.statusCode = 200
    /\ Len(detections) = 1
    /\ detections[1].video \in videos

\* The request lacks a required field: a text that is absent or empty, or a
\* number of seconds that is absent.
LacksField ==
    LET event == Val(clip.event) IN
    \/ \E f \in {"programSlug", "channel", "region", "assetId"} :
           event[f] = NULL \/ event[f] = Some("")
    \/ \E f \in {"date", "time"} : event[f] = NULL \/ event[f] = Some(<<>>)
    \/ \E f \in {"secondsBefore", "secondsAfter"} : event[f] = NULL

\* No awaited call of the handler has rejected.
NothingRejected == \A k \in 1..Len(clip.calls) : clip.calls[k].ok

\* The handler has written nothing: no Broadcast, no Detection, no clip.
NothingCreated ==
    /\ broadcasts = BroadcastsBefore
    /\ CallsAt("broadcast.create", TRUE) = {}
    /\ detections = <<>>
    /\ videos = {}

\* The request names a slug that no catalog row has.
UnknownSlug ==
    \A i \in 1..Len(Slugs) : Val(clip.event).programSlug # Some(Slugs[i])

\* The program of the request has a Day on the date written as token.
HasDayOn(token) ==
    \E i \in 1..Len(days) :
        /\ \E p \in 1..Len(Slugs) : /\ Val(clip.event).programSlug = Some(Slugs[p])
                                    /\ days[i].programId = Catalog[p].id
        /\ days[i].date = token

\* The date the handler looks the Day up by.  The requests of the model are
\* for 2026-01-04; the revision in deploy.sh takes the date ten hours east of
\* the instant of the request, which is the next day from 14:00:00 on.
LookupDate ==
    IF clip.source = "deploy.sh"
       /\ Val(parseInt(SubSeq(Val(Val(clip.event).time), 1, 2))) >= 14
    THEN "20260105"
    ELSE "20260104"

\* What C30 says of incomplete requests, of a zero number of seconds and of
\* an unknown slug: a request that lacks a required field is answered 400
\* and nothing but the disconnect is awaited; a request with every field,
\* also with 0 seconds before or after, is not answered 400; an unknown slug
\* is answered 404 and nothing is created.
ValidationAndSlug ==
    clip.pc # "idle" =>
        /\ LacksField =>
               /\ clip.statusCode = 400
               /\ \A k \in 1..Len(clip.calls) : clip.calls[k].op = "$disconnect"
               /\ ~clip.connected
               /\ NothingCreated
        /\ ~LacksField => clip.statusCode # 400
        /\ ~LacksField /\ UnknownSlug /\ NothingRejected =>
               /\ NothingCreated
               /\ clip.pc = "done" => clip.statusCode = 404

C30_ZeroSecondsServed ==
    /\ clip.pc = "done"
    /\ Val(clip.event).secondsBefore = Some(0)
    /\ Val(clip.event).secondsAfter = Some(0)
    /\ clip.statusCode = 200

\* A request for a known program without a Day on the date looked up has
\* been answered 404.
C30_NoDayAnswered ==
    /\ clip.pc = "done"
    /\ ~LacksField
    /\ ~UnknownSlug
    /\ ~HasDayOn(LookupDate)
    /\ days # <<>>
    /\ clip.statusCode = 404

\* The revision in deploy.sh has served a request for 2026-01-04 15:00:00
\* although the program has no Day on 2026-01-04: it found the Day of
\* 2026-01-05 and created the Detection.
C30_ServedWithoutDayOnRequestDate ==
    /\ clip.pc = "done"
    /\ clip.statusCode = 200
    /\ ~HasDayOn("20260104")
    /\ Len(detections) = 1

====
